---- MODULE Spec2Model ----
(***************************************************************************)
(* Network device monitor (network-monitor/monitor.py).                    *)
(*                                                                         *)
(* The model covers the DeviceTracker (in-memory device map plus the       *)
(* append-only per-device history files), the discovery and polling loops  *)
(* of NetworkMonitor that drive it, and a restart of the process, which    *)
(* rebuilds the device map from the last line of every history file.       *)
(*                                                                         *)
(* Time is counted in ticks of TickMs milliseconds.  datetime.now() is     *)
(* taken to be strictly increasing from one reading to the next.  A label  *)
(* (hostname) is a sequence of one-character strings.  The history files   *)
(* are kept as one sequence of written lines, each tagged with the file it *)
(* was appended to; the content of a file is the subsequence of its lines. *)
(* Every write to a history file succeeds in this specification.           *)
(*                                                                         *)
(* Spec is the specification of the above.  Further specifications over    *)
(* the same variables look at one part each and leave the rest as it is:   *)
(* SpecLock, the calls of the Tracker step by step under its lock;         *)
(* SpecConfig, the lookup of a device override; SpecSweep, the timed       *)
(* schedule of the probes of one polling sweep; SpecPing, one call of      *)
(* DevicePinger.is_online; SpecLive, Spec with the end of the process      *)
(* that follows a stop signal; SpecIO, the two loops with failing scans,   *)
(* writes and probe tasks; SpecFilename, _get_filename of any label;       *)
(* SpecLookup, the calls of MacVendorLookup.generate_hostname one at a     *)
(* time; SpecRace, the same calls from two threads at once; SpecCalls, the *)
(* two writing calls of the Tracker made directly with any arguments;      *)
(* SpecMutex, SpecLock with calls that raise and with fair scheduling.     *)
(***************************************************************************)
EXTENDS Integers, Sequences, FiniteSets, TLC

\* ---- bounds of the model ----
MaxTime == 3        \* the clock stops at this many ticks
MaxStep == 2        \* largest number of ticks between two clock readings
TickMs  == 40       \* length of a tick in milliseconds
MaxOverrides == 2   \* the longest list of device overrides
MaxDevices == 3     \* the most devices in the snapshot of a sweep
MaxWorkers == 3     \* the largest parallel_ping_workers
MaxProbe == 2       \* the longest run of a probe, in units of sweep time
MaxPingCount == 4   \* the largest ping_count
MaxPingTimeout == 2 \* the largest ping_timeout_seconds

\* ---- values the environment supplies ----
MACs == {"m1", "m2"}

\* the (mac, ip, hostname) entries a scan can return
ScanPairs ==
    { <<"m1", "ip1", <<"a", "/">> >>,
      <<"m2", "ip1", <<"a">> >>,
      <<"m2", "ip2", <<"-", "b">> >> }

StatusValues == {"online", "offline"}

VARIABLES
    device_states,  \* DeviceTracker.device_states: mac -> record
    disk,           \* lines appended to the files of devices_dir, in write order
    clock,          \* the last value datetime.now() returned
    running,        \* NetworkMonitor.running
    discPc,         \* position of the discovery thread
    discSeen,       \* discovery: macs of the scan result already processed
    discMac,        \* discovery: mac of the pair being processed
    discBefore,     \* discovery: status of that device when the pair was reached
    pollPc,         \* position of the polling thread
    pollDevices,    \* polling: snapshot tuples whose probe is not yet processed
    lock,           \* DeviceTracker.lock: "free" or the thread that holds it
    pendingWrite,   \* the lines the holder of the lock has still to append
    device_overrides, \* config['device_overrides']: (pattern, patch) in order
    cfgHostname,    \* the label of the last _get_device_config call
    cfgResult,      \* <<>> or the patch that call returned
    max_workers,    \* polling_thread: config['parallel_ping_workers']
    num_devices,    \* polling_thread: len(devices) of the sweep, 0 between sweeps
    tasks,          \* the _check_device tasks submitted to the executor, in order
    sweepClock,     \* time since the executor of the sweep was created
    sweepRaised,    \* polling_thread: executor.submit has raised in this sweep
    timeout_seconds, \* DevicePinger.timeout_seconds
    ping_count,     \* DevicePinger.ping_count
    pingRun,        \* <<>> or what the ping command did in the last is_online call
    pingResult,     \* <<>> or the outcome of that call
    cache,          \* MacVendorLookup.cache: mac -> vendor
    hostname_counts, \* MacVendorLookup.hostname_counts: base name -> count
    requests,       \* the number of requests.get calls made so far
    issued,         \* the generate_hostname calls that returned, in order
    genPc,          \* the position of each caller inside generate_hostname
    fnLabel,        \* the label handed to _get_filename
    fnName,         \* <<>> or the file name _get_filename returned for it
    trkCall         \* <<>> or the last call made of the Tracker, with its arguments

\* the variables of the Tracker's lock
lockVars == <<lock, pendingWrite>>

\* the variables of the override lookup
cfgVars == <<device_overrides, cfgHostname, cfgResult>>

\* the variables of the schedule of a sweep
sweepVars == <<max_workers, num_devices, tasks, sweepClock, sweepRaised>>

\* the variables of the DevicePinger
pingVars == <<timeout_seconds, ping_count, pingRun, pingResult>>

\* the variables of the MacVendorLookup
lookupVars == <<cache, hostname_counts, requests, issued, genPc>>

\* the variables of a call of _get_filename
fileVars == <<fnLabel, fnName>>

\* the variable of a call of the Tracker
callVars == <<trkCall>>

\* the variables of the label and of the file name of a device
moreVars == <<lookupVars, fileVars, callVars>>

\* the variables the specification Spec leaves as they are
auxVars == <<lockVars, cfgVars, sweepVars, pingVars, moreVars>>

vars == <<device_states, disk, clock, running,
          discPc, discSeen, discMac, discBefore, pollPc, pollDevices, auxVars>>

\* ---- DeviceTracker._get_filename ----
AlnumChars ==
    {"a", "b", "c", "d", "e", "i", "k", "n", "o", "u", "v", "w", "h", "x",
     "A", "B", "C", "D", "E", "F", "I", "U",
     "0", "1", "2", "3", "4", "5", "6", "7", "8", "9"}

IsSafeChar(c) == c \in AlnumChars \/ c \in {"-", "_"}

RECURSIVE lstrip(_)
lstrip(s) ==
    IF s # <<>> /\ Head(s) \in {"-", "_"} THEN lstrip(Tail(s)) ELSE s

UnknownDevice ==
    <<"u", "n", "k", "n", "o", "w", "n", "-", "d", "e", "v", "i", "c", "e">>

\* variant: one leading '-' or '_' is stripped, not all of them
_get_filename_strip_once(hostname) ==
    LET kept == SelectSeq(hostname, IsSafeChar)
        safe_name == IF kept # <<>> /\ Head(kept) \in {"-", "_"}
                     THEN Tail(kept) ELSE kept
    IN  IF safe_name = <<>> THEN UnknownDevice ELSE safe_name

\* variant: the leading '-' and '_' are not stripped
_get_filename_unstripped(hostname) ==
    LET safe_name == SelectSeq(hostname, IsSafeChar)
    IN  IF safe_name = <<>> THEN UnknownDevice ELSE safe_name

_get_filename(hostname) ==
    LET safe_name == lstrip(SelectSeq(hostname, IsSafeChar))
    IN  IF safe_name = <<>> THEN UnknownDevice ELSE safe_name

\* ---- the clock and the formatting of a duration ----
\* the values a reading of datetime.now() can return
Now == (clock + 1) .. (IF clock + MaxStep < MaxTime THEN clock + MaxStep ELSE MaxTime)

\* variant: the duration is cut to tenths of a second instead of rounded
FormatInterval_truncated(ticks) == (TickMs * ticks) \div 100

\* f"{interval_seconds:.1f}": the elapsed ticks as tenths of a second, rounded
FormatInterval(ticks) == (TickMs * ticks + 50) \div 100

\* ---- the history files ----
Files(d) == {d[i].file : i \in DOMAIN d}

FileLines(d, f) == SelectSeq(d, LAMBDA e : e.file = f)

LastLine(d, f) == FileLines(d, f)[Len(FileLines(d, f))]

\* ---- DeviceTracker._load_device_states ----
\* the records that the last lines of the files give for mac m
LoadedRecords(d, m) ==
    { [hostname |-> f, ip |-> LastLine(d, f).ip, status |-> LastLine(d, f).status,
       last_change |-> LastLine(d, f).timestamp] :
      f \in {g \in Files(d) : LastLine(d, g).mac = m} }

\* the device maps that loading can produce (the order of os.listdir decides
\* between two files whose last line names the same mac)
_load_device_states(d) ==
    LET macs == {LastLine(d, f).mac : f \in Files(d)}
    IN  {ds \in [macs -> UNION {LoadedRecords(d, m) : m \in macs}] :
            \A m \in macs : ds[m] \in LoadedRecords(d, m)}

\* ---- the history of a device: the lines written for its mac ----
History(m) == SelectSeq(disk, LAMBDA e : e.mac = m)

\* variant: a new device is put into the map but its first line is not written
add_or_update_device_unlogged(mac, ip, hostname) ==
    IF mac \in DOMAIN device_states
    THEN /\ device_states' = [device_states EXCEPT ![mac].ip = ip]
         /\ UNCHANGED <<disk, clock>>
    ELSE \E now \in Now :
         /\ clock' = now
         /\ device_states' =
                (mac :> [hostname |-> hostname, ip |-> ip, status |-> "online",
                         last_change |-> now]) @@ device_states
         /\ disk' = disk

\* variant: a known device also takes the label of the call
add_or_update_device_relabel(mac, ip, hostname) ==
    IF mac \in DOMAIN device_states
    THEN /\ device_states' = [device_states EXCEPT ![mac].ip = ip,
                                                   ![mac].hostname = hostname]
         /\ UNCHANGED <<disk, clock>>
    ELSE \E now \in Now :
         /\ clock' = now
         /\ device_states' =
                (mac :> [hostname |-> hostname, ip |-> ip, status |-> "online",
                         last_change |-> now]) @@ device_states
         /\ disk' = Append(disk,
                [file |-> _get_filename(hostname), timestamp |-> now, ip |-> ip,
                 mac |-> mac, status |-> "online", interval |-> 0])

\* ---- DeviceTracker.add_or_update_device ----
add_or_update_device(mac, ip, hostname) ==
    IF mac \in DOMAIN device_states
    THEN /\ device_states' = [device_states EXCEPT ![mac].ip = ip]
         /\ UNCHANGED <<disk, clock>>
    ELSE \E now \in Now :
         /\ clock' = now
         /\ device_states' =
                (mac :> [hostname |-> hostname, ip |-> ip, status |-> "online",
                         last_change |-> now]) @@ device_states
         /\ disk' = Append(disk,
                [file |-> _get_filename(hostname), timestamp |-> now, ip |-> ip,
                 mac |-> mac, status |-> "online", interval |-> 0])

\* variant: the comparison of the old and the new status is missing
update_device_status_unguarded(mac, new_status) ==
    IF mac \notin DOMAIN device_states
    THEN UNCHANGED <<device_states, disk, clock>>
    ELSE LET device == device_states[mac]
         IN  \E now \in Now :
                  /\ clock' = now
                  /\ device_states' =
                        [device_states EXCEPT ![mac].status = new_status,
                                              ![mac].last_change = now]
                  /\ disk' = Append(disk,
                        [file |-> _get_filename(device.hostname), timestamp |-> now,
                         ip |-> device.ip, mac |-> mac, status |-> new_status,
                         interval |-> FormatInterval(now - device.last_change)])

\* variant: a mac that is not known is made a device of the new status
update_device_status_creating(mac, new_status) ==
    IF mac \notin DOMAIN device_states
    THEN /\ device_states' =
                (mac :> [hostname |-> <<>>, ip |-> "", status |-> new_status,
                         last_change |-> clock]) @@ device_states
         /\ UNCHANGED <<disk, clock>>
    ELSE LET device == device_states[mac]
         IN  IF device.status # new_status
             THEN \E now \in Now :
                  /\ clock' = now
                  /\ device_states' =
                        [device_states EXCEPT ![mac].status = new_status,
                                              ![mac].last_change = now]
                  /\ disk' = Append(disk,
                        [file |-> _get_filename(device.hostname), timestamp |-> now,
                         ip |-> device.ip, mac |-> mac, status |-> new_status,
                         interval |-> FormatInterval(now - device.last_change)])
             ELSE UNCHANGED <<device_states, disk, clock>>

\* ---- DeviceTracker.update_device_status ----
update_device_status(mac, new_status) ==
    IF mac \notin DOMAIN device_states
    THEN UNCHANGED <<device_states, disk, clock>>
    ELSE LET device == device_states[mac]
         IN  IF device.status # new_status
             THEN \E now \in Now :
                  /\ clock' = now
                  /\ device_states' =
                        [device_states EXCEPT ![mac].status = new_status,
                                              ![mac].last_change = now]
                  /\ disk' = Append(disk,
                        [file |-> _get_filename(device.hostname), timestamp |-> now,
                         ip |-> device.ip, mac |-> mac, status |-> new_status,
                         interval |-> FormatInterval(now - device.last_change)])
             ELSE UNCHANGED <<device_states, disk, clock>>

\* ---- DeviceTracker.get_all_devices ----
get_all_devices ==
    [mac \in DOMAIN device_states |->
        [ip |-> device_states[mac].ip, hostname |-> device_states[mac].hostname,
         status |-> device_states[mac].status]]

NoMac == "none"

\* what the Tracker holds of a device when the discovery loop reaches its pair
status_before(mac) ==
    IF mac \in DOMAIN device_states THEN device_states[mac].status ELSE "new"

\* no line is waiting to be written
NoWrite == <<>>

\* config.get('parallel_ping_workers', 10)
DefaultWorkers == 10

\* the device overrides of the monitor of Spec: the label "a/" is not polled
MonitorOverrides ==
    << [pattern |-> <<"a", "/">>, patch |-> {<<"disable_polling", TRUE>>}] >>

\* DeviceTracker and NetworkMonitor after construction in an empty directory
CoreInit ==
    /\ device_states = <<>>
    /\ disk = <<>>
    /\ clock = 0
    /\ running = FALSE
    /\ discPc = "none"
    /\ discSeen = {}
    /\ discMac = NoMac
    /\ discBefore = NoMac
    /\ pollPc = "none"
    /\ pollDevices = <<>>

\* the lock is free
LockInit ==
    /\ lock = "free"
    /\ pendingWrite = NoWrite

\* no lookup of a device configuration has been made
CfgInit ==
    /\ cfgHostname = <<>>
    /\ cfgResult = <<>>

\* no sweep is under way
SweepIdle ==
    /\ num_devices = 0
    /\ tasks = <<>>
    /\ sweepClock = 0
    /\ sweepRaised = FALSE

\* the DevicePinger of the default arguments, not yet called
PingInit ==
    /\ timeout_seconds = 2
    /\ ping_count = 1
    /\ pingRun = <<>>
    /\ pingResult = <<>>

\* the MacVendorLookup after construction
LookupInit ==
    /\ cache = <<>>
    /\ hostname_counts = <<>>
    /\ requests = 0
    /\ issued = <<>>
    /\ genPc = <<>>

\* _get_filename has not been called
FileIdle ==
    /\ fnLabel = <<>>
    /\ fnName = <<>>

\* no call of the Tracker has been made
CallIdle == trkCall = <<>>

MoreInit ==
    /\ LookupInit
    /\ FileIdle
    /\ CallIdle

Init ==
    /\ CoreInit
    /\ LockInit
    /\ device_overrides = MonitorOverrides
    /\ CfgInit
    /\ max_workers = DefaultWorkers
    /\ SweepIdle
    /\ PingInit
    /\ MoreInit

\* ---- NetworkMonitor.start ----
Start ==
    /\ discPc = "none" /\ pollPc = "none"
    /\ running' = TRUE
    /\ discPc' = "loop"
    /\ pollPc' = "loop"
    /\ UNCHANGED <<device_states, disk, clock, discSeen, discMac, discBefore, pollDevices>>
    /\ UNCHANGED auxVars

\* KeyboardInterrupt in start
Stop ==
    /\ running
    /\ running' = FALSE
    /\ UNCHANGED <<device_states, disk, clock, discPc, discSeen, discMac, discBefore,
                   pollPc, pollDevices>>
    /\ UNCHANGED auxVars

\* ---- NetworkMonitor.discovery_thread ----
\* The dict that scan returns holds any pairs, one per mac, and only the loop
\* over it reads it: its pairs are drawn as the loop reaches them.
\* variant: the loop does not look at self.running
DiscoveryScan_unchecked ==
    /\ discPc = "loop"
    /\ discPc' = "register"
    /\ discSeen' = {}
    /\ UNCHANGED <<device_states, disk, clock, running, discMac, discBefore, pollPc, pollDevices>>
    /\ UNCHANGED auxVars

DiscoveryScan ==
    /\ discPc = "loop" /\ running
    /\ discPc' = "register"
    /\ discSeen' = {}
    /\ UNCHANGED <<device_states, disk, clock, running, discMac, discBefore, pollPc, pollDevices>>
    /\ UNCHANGED auxVars

DiscoveryRegister(mac, ip, hostname) ==
    /\ discPc = "register"
    /\ mac \notin discSeen
    /\ add_or_update_device(mac, ip, hostname)
    /\ discMac' = mac
    /\ discBefore' = status_before(mac)
    /\ discPc' = "update"
    /\ UNCHANGED <<running, discSeen, pollPc, pollDevices>>
    /\ UNCHANGED auxVars

\* variant: the loop registers the pair but does not set its status
DiscoveryUpdate_skipped ==
    /\ discPc = "update"
    /\ discSeen' = discSeen \cup {discMac}
    /\ discMac' = NoMac
    /\ discBefore' = NoMac
    /\ discPc' = "register"
    /\ UNCHANGED <<device_states, disk, clock, running, pollPc, pollDevices>>
    /\ UNCHANGED auxVars

\* variant: the list get_all_devices returned shares the records of
\* device_states, so the status set here shows in the snapshot the polling
\* thread holds
DiscoveryUpdate_shared ==
    /\ discPc = "update"
    /\ update_device_status(discMac, "online")
    /\ discSeen' = discSeen \cup {discMac}
    /\ discMac' = NoMac
    /\ discBefore' = NoMac
    /\ discPc' = "register"
    /\ pollDevices' =
            [m \in DOMAIN pollDevices |->
                IF m = discMac THEN [pollDevices[m] EXCEPT !.status = "online"]
                ELSE pollDevices[m]]
    /\ UNCHANGED <<running, pollPc>>
    /\ UNCHANGED auxVars

\* variant: the loop writes an online entry for every pair of the scan
DiscoveryUpdate_always ==
    /\ discPc = "update"
    /\ update_device_status_unguarded(discMac, "online")
    /\ discSeen' = discSeen \cup {discMac}
    /\ discMac' = NoMac
    /\ discBefore' = NoMac
    /\ discPc' = "register"
    /\ UNCHANGED <<running, pollPc, pollDevices>>
    /\ UNCHANGED auxVars

DiscoveryUpdate ==
    /\ discPc = "update"
    /\ update_device_status(discMac, "online")
    /\ discSeen' = discSeen \cup {discMac}
    /\ discMac' = NoMac
    /\ discBefore' = NoMac
    /\ discPc' = "register"
    /\ UNCHANGED <<running, pollPc, pollDevices>>
    /\ UNCHANGED auxVars

\* variant: at the end of a cycle the devices the scan did not return are
\* taken to be offline
DiscoverySleep_absent_offline ==
    /\ discPc = "register"
    /\ discPc' = "loop"
    /\ discSeen' = {}
    /\ device_states' =
            [m \in DOMAIN device_states |->
                IF m \in discSeen THEN device_states[m]
                ELSE [device_states[m] EXCEPT !.status = "offline"]]
    /\ UNCHANGED <<disk, clock, running, discMac, discBefore, pollPc, pollDevices>>
    /\ UNCHANGED auxVars

\* the scan result has no further pair: the loop sleeps and starts over
DiscoverySleep ==
    /\ discPc = "register"
    /\ discPc' = "loop"
    /\ discSeen' = {}
    /\ UNCHANGED <<device_states, disk, clock, running, discMac, discBefore, pollPc, pollDevices>>
    /\ UNCHANGED auxVars

DiscoveryExit ==
    /\ discPc = "loop" /\ ~running
    /\ discPc' = "exited"
    /\ UNCHANGED <<device_states, disk, clock, running, discSeen, discMac, discBefore,
                   pollPc, pollDevices>>
    /\ UNCHANGED auxVars

\* ---- NetworkMonitor.polling_thread ----
PollSnapshot ==
    /\ pollPc = "loop" /\ running
    /\ pollDevices' = get_all_devices
    /\ pollPc' = IF DOMAIN get_all_devices = {} THEN "loop" ELSE "sweep"
    /\ UNCHANGED <<device_states, disk, clock, running, discPc, discSeen, discMac, discBefore>>
    /\ UNCHANGED auxVars

\* NetworkMonitor._check_device returns new_status for mac and the body of
\* the as_completed loop handles it
PollResult(mac, new_status) ==
    /\ pollPc = "sweep"
    /\ mac \in DOMAIN pollDevices
    /\ IF new_status # pollDevices[mac].status
       THEN update_device_status(mac, new_status)
       ELSE UNCHANGED <<device_states, disk, clock>>
    /\ pollDevices' = [m \in DOMAIN pollDevices \ {mac} |-> pollDevices[m]]
    /\ pollPc' = IF DOMAIN pollDevices = {mac} THEN "loop" ELSE "sweep"
    /\ UNCHANGED <<running, discPc, discSeen, discMac, discBefore>>
    /\ UNCHANGED auxVars

PollExit ==
    /\ pollPc = "loop" /\ ~running
    /\ pollPc' = "exited"
    /\ UNCHANGED <<device_states, disk, clock, running, discPc, discSeen, discMac, discBefore,
                   pollDevices>>
    /\ UNCHANGED auxVars

\* ---- the process ends and is started again: NetworkMonitor.__init__ ----
Restart ==
    /\ device_states' \in _load_device_states(disk)
    /\ running' = FALSE
    /\ discPc' = "none"
    /\ discSeen' = {}
    /\ discMac' = NoMac
    /\ discBefore' = NoMac
    /\ pollPc' = "none"
    /\ pollDevices' = <<>>
    /\ UNCHANGED <<disk, clock>>
    /\ UNCHANGED auxVars

Next ==
    \/ Start
    \/ Stop
    \/ DiscoveryScan
    \/ \E pair \in ScanPairs : DiscoveryRegister(pair[1], pair[2], pair[3])
    \/ DiscoveryUpdate
    \/ DiscoverySleep
    \/ DiscoveryExit
    \/ PollSnapshot
    \/ \E mac \in MACs, new_status \in StatusValues : PollResult(mac, new_status)
    \/ PollExit
    \/ Restart

Spec == Init /\ [][Next]_vars

(***************************************************************************)
(* Properties                                                              *)
(***************************************************************************)
IsPrefix(s, t) == Len(s) <= Len(t) /\ SubSeq(t, 1, Len(s)) = s

RECURSIVE SumIntervals(_)
SumIntervals(h) == IF h = <<>> THEN 0 ELSE Head(h).interval + SumIntervals(Tail(h))

Abs(x) == IF x < 0 THEN -x ELSE x

\* this step is a call update_device_status(mac, new_status): line 390 of the
\* discovery loop or line 447 of the polling loop
SetStatusCall(mac, new_status) ==
    \/ DiscoveryUpdate /\ discMac = mac /\ new_status = "online"
    \/ PollResult(mac, new_status) /\ new_status # pollDevices[mac].status

\* this step is a call add_or_update_device(mac, ip, hostname): line 389
RegisterCall(mac, ip, hostname) == DiscoveryRegister(mac, ip, hostname)

\* C1: a call of update_device_status for a known device with the status the
\* device already has appends no history entry and leaves the device map
\* (status and last-change timestamp included) as it is.
C1_SameStatusIsNoOp ==
    [][\A mac \in MACs, new_status \in StatusValues :
          ( /\ mac \in DOMAIN device_states
            /\ device_states[mac].status = new_status
            /\ SetStatusCall(mac, new_status) )
          => (disk' = disk /\ device_states' = device_states)]_vars

\* a device the discovery loop has registered and set online in this cycle
\* and whose history still is the one line of its registration
C1_Witness ==
    \E m \in discSeen :
        /\ m \in DOMAIN device_states
        /\ device_states[m].status = "online"
        /\ Len(History(m)) = 1

\* C2: add_or_update_device for a mac the Tracker does not know creates the
\* device with status online and appends exactly one history entry, for that
\* mac, with status online and duration 0.
C2_RegisterUnknownCreates ==
    [][\A pair \in ScanPairs :
          (RegisterCall(pair[1], pair[2], pair[3]) /\ pair[1] \notin DOMAIN device_states)
          => /\ DOMAIN device_states' = DOMAIN device_states \cup {pair[1]}
             /\ device_states'[pair[1]].status = "online"
             /\ Len(disk') = Len(disk) + 1
             /\ IsPrefix(disk, disk')
             /\ disk'[Len(disk')].mac = pair[1]
             /\ disk'[Len(disk')].status = "online"
             /\ disk'[Len(disk')].interval = 0]_vars

\* the discovery loop has just registered a device whose only history entry
\* is the last line written
C2_Witness ==
    /\ discPc = "update"
    /\ discMac \in DOMAIN device_states
    /\ Len(History(discMac)) = 1
    /\ disk[Len(disk)].mac = discMac
    /\ device_states[discMac].last_change = clock

\* the effect C3 names, with the duration compared to the elapsed time by
\* Close(duration in tenths of a second, elapsed ticks)
StatusChange(mac, new_status, Close(_, _)) ==
    /\ device_states'[mac].status = new_status
    /\ Len(disk') = Len(disk) + 1
    /\ IsPrefix(disk, disk')
    /\ disk'[Len(disk')].mac = mac
    /\ disk'[Len(disk')].status = new_status
    /\ Close(disk'[Len(disk')].interval,
             disk'[Len(disk')].timestamp - History(mac)[Len(History(mac))].timestamp)

C4_RegisterKnownUpdatesIpOnly ==
    [][\A pair \in ScanPairs :
          (RegisterCall(pair[1], pair[2], pair[3]) /\ pair[1] \in DOMAIN device_states)
          => /\ device_states' = [device_states EXCEPT ![pair[1]].ip = pair[2]]
             /\ disk' = disk]_vars

\* m2 was created under the label "a" (with ip1) and has then been registered
\* again with the pair that carries the other label and ip2
C4_Witness ==
    /\ discPc = "update"
    /\ discMac = "m2"
    /\ "m2" \in DOMAIN device_states
    /\ device_states["m2"].hostname = <<"a">>
    /\ device_states["m2"].ip = "ip2"

\* C5 as stated: for every device the durations of its history entries add
\* up to the time between its first and its last entry.
C5_Original ==
    \A m \in MACs :
        History(m) # <<>> =>
            100 * SumIntervals(History(m)) =
                TickMs * (History(m)[Len(History(m))].timestamp - History(m)[1].timestamp)

\* C6 as stated: the history entries of a device are strictly ordered by
\* timestamp, and every entry after the first has a duration >= 0 that equals
\* its timestamp minus the timestamp of the previous entry of the device.
C6_Original ==
    \A m \in MACs : \A i \in 2..Len(History(m)) :
        /\ History(m)[i - 1].timestamp < History(m)[i].timestamp
        /\ History(m)[i].interval >= 0
        /\ 100 * History(m)[i].interval =
                TickMs * (History(m)[i].timestamp - History(m)[i - 1].timestamp)

\* C7 as stated: the history is append-only (no line is changed or removed)
\* and two consecutive entries of a device never carry the same status.
C7_Original ==
    /\ [][IsPrefix(disk, disk')]_vars
    /\ [](\A m \in MACs : \A i \in 2..Len(History(m)) :
            History(m)[i - 1].status # History(m)[i].status)

\* a step of the discovery loop
DiscoveryStep ==
    \/ DiscoveryScan
    \/ \E pair \in ScanPairs : DiscoveryRegister(pair[1], pair[2], pair[3])
    \/ DiscoveryUpdate
    \/ DiscoverySleep
    \/ DiscoveryExit

\* C8: while the process runs the set of devices the Tracker knows never
\* shrinks; no step of the discovery loop sets a device to offline, and it
\* changes the status or adds a history entry only of the device of the pair
\* it is processing (discMac), so a cycle whose scan is empty or omits a
\* device leaves that device's status and history as they were.
C8_DiscoveryNeverRemovesOrOfflines ==
    [][ /\ ~Restart => DOMAIN device_states \subseteq DOMAIN device_states'
        /\ DiscoveryStep =>
              \A m \in DOMAIN device_states :
                 /\ m \in DOMAIN device_states'
                 /\ device_states'[m].status = "offline"
                        => device_states[m].status = "offline"
                 /\ (m # discMac /\ m # discMac')
                      => ( /\ device_states'[m].status = device_states[m].status
                           /\ Len(SelectSeq(disk', LAMBDA e : e.mac = m)) = Len(History(m)) )
      ]_vars

\* the discovery loop has processed the pair of one device and has no pair
\* so far for another device, which is known and offline
C8_Witness ==
    /\ discPc = "register"
    /\ \E n \in discSeen, m \in DOMAIN device_states \ discSeen :
          /\ n \in DOMAIN device_states
          /\ device_states[m].status = "offline"

\* C9: the discovery loop calls add_or_update_device and then
\* update_device_status(mac, online) for the pair it processes, and when the
\* second call returns the device is known and online.
C9_DiscoveredIsOnline ==
    [][ /\ \A pair \in ScanPairs :
              RegisterCall(pair[1], pair[2], pair[3])
              => (discPc' = "update" /\ discMac' = pair[1]
                    /\ pair[1] \in DOMAIN device_states')
        /\ (discPc = "update" /\ discPc' # "update" /\ ~Restart)
              => ( /\ discMac \in DOMAIN device_states'
                   /\ device_states'[discMac].status = "online"
                   /\ discSeen' = discSeen \cup {discMac} )
      ]_vars

\* a device that was offline has been processed by the discovery loop and
\* its last history entry is the transition to online
C9_Witness ==
    \E m \in discSeen :
        /\ m \in DOMAIN device_states
        /\ device_states[m].status = "online"
        /\ Len(History(m)) >= 2
        /\ History(m)[Len(History(m))].status = "online"
        /\ History(m)[Len(History(m)) - 1].status = "offline"
        /\ History(m)[Len(History(m))].timestamp = clock

\* C10 as stated: a restart leaves every device the Tracker knew known to the
\* new Tracker, under the same mac and with the same status.
C10_Original ==
    [][Restart =>
          \A m \in DOMAIN device_states :
              /\ m \in DOMAIN device_states'
              /\ device_states'[m].status = device_states[m].status]_vars


(***************************************************************************)
(* DeviceTracker under its lock.  Each call of the two threads is two      *)
(* steps: the first takes the lock and runs the body of the with block up  *)
(* to the change of device_states, the second writes the line and leaves   *)
(* the with block.                                                         *)
(***************************************************************************)
Threads == {"discovery", "polling"}

\* variant: the with block is entered without waiting for the lock
acquire_unguarded(t) ==
    lock' = t

\* ---- threading.Lock: the head of `with self.lock` ----
acquire(t) ==
    /\ lock = "free"
    /\ lock' = t

\* ---- threading.Lock: the end of `with self.lock` ----
release(t) ==
    /\ lock = t
    /\ lock' = "free"

\* ---- add_or_update_device up to the change of device_states ----
add_or_update_device_enter(mac, ip, hostname) ==
    IF mac \in DOMAIN device_states
    THEN /\ device_states' = [device_states EXCEPT ![mac].ip = ip]
         /\ pendingWrite' = NoWrite
         /\ UNCHANGED clock
    ELSE \E now \in Now :
         /\ clock' = now
         /\ device_states' =
                (mac :> [hostname |-> hostname, ip |-> ip, status |-> "online",
                         last_change |-> now]) @@ device_states
         /\ pendingWrite' =
                << [file |-> _get_filename(hostname), timestamp |-> now, ip |-> ip,
                    mac |-> mac, status |-> "online", interval |-> 0] >>

\* ---- update_device_status up to the change of device_states ----
update_device_status_enter(mac, new_status) ==
    IF mac \notin DOMAIN device_states
    THEN /\ pendingWrite' = NoWrite
         /\ UNCHANGED <<device_states, clock>>
    ELSE LET device == device_states[mac]
         IN  IF device.status # new_status
             THEN \E now \in Now :
                  /\ clock' = now
                  /\ device_states' =
                        [device_states EXCEPT ![mac].status = new_status,
                                              ![mac].last_change = now]
                  /\ pendingWrite' =
                        << [file |-> _get_filename(device.hostname),
                            timestamp |-> now, ip |-> device.ip, mac |-> mac,
                            status |-> new_status,
                            interval |-> FormatInterval(now - device.last_change)] >>
             ELSE /\ pendingWrite' = NoWrite
                  /\ UNCHANGED <<device_states, clock>>

\* ---- the f.write of either call and the end of its with block ----
write_and_release(t) ==
    /\ disk' = disk \o pendingWrite
    /\ pendingWrite' = NoWrite
    /\ release(t)

\* ---- discovery_thread: tracker.add_or_update_device ----
LockRegisterEnter(mac, ip, hostname) ==
    /\ discPc = "register"
    /\ mac \notin discSeen
    /\ acquire("discovery")
    /\ add_or_update_device_enter(mac, ip, hostname)
    /\ discMac' = mac
    /\ discBefore' = status_before(mac)
    /\ discPc' = "register_cs"
    /\ UNCHANGED <<disk, running, discSeen, pollPc, pollDevices>>
    /\ UNCHANGED <<cfgVars, sweepVars, pingVars, moreVars>>

LockRegisterLeave ==
    /\ discPc = "register_cs"
    /\ write_and_release("discovery")
    /\ discPc' = "update"
    /\ UNCHANGED <<device_states, clock, running, discSeen, discMac, discBefore, pollPc,
                   pollDevices>>
    /\ UNCHANGED <<cfgVars, sweepVars, pingVars, moreVars>>

\* ---- discovery_thread: tracker.update_device_status(mac, 'online') ----
LockUpdateEnter ==
    /\ discPc = "update"
    /\ acquire("discovery")
    /\ update_device_status_enter(discMac, "online")
    /\ discPc' = "update_cs"
    /\ UNCHANGED <<disk, running, discSeen, discMac, discBefore, pollPc, pollDevices>>
    /\ UNCHANGED <<cfgVars, sweepVars, pingVars, moreVars>>

LockUpdateLeave ==
    /\ discPc = "update_cs"
    /\ write_and_release("discovery")
    /\ discSeen' = discSeen \cup {discMac}
    /\ discMac' = NoMac
    /\ discBefore' = NoMac
    /\ discPc' = "register"
    /\ UNCHANGED <<device_states, clock, running, pollPc, pollDevices>>
    /\ UNCHANGED <<cfgVars, sweepVars, pingVars, moreVars>>

\* ---- polling_thread: tracker.get_all_devices ----
LockSnapshotEnter ==
    /\ pollPc = "loop" /\ running
    /\ acquire("polling")
    /\ pollPc' = "snapshot_cs"
    /\ UNCHANGED <<device_states, disk, clock, running, discPc, discSeen, discMac, discBefore,
                   pollDevices, pendingWrite>>
    /\ UNCHANGED <<cfgVars, sweepVars, pingVars, moreVars>>

LockSnapshotLeave ==
    /\ pollPc = "snapshot_cs"
    /\ pollDevices' = get_all_devices
    /\ release("polling")
    /\ pollPc' = IF DOMAIN get_all_devices = {} THEN "loop" ELSE "sweep"
    /\ UNCHANGED <<device_states, disk, clock, running, discPc, discSeen, discMac, discBefore,
                   pendingWrite>>
    /\ UNCHANGED <<cfgVars, sweepVars, pingVars, moreVars>>

\* ---- polling_thread: a probe returns the status of the snapshot ----
LockResultSame(mac, new_status) ==
    /\ pollPc = "sweep"
    /\ mac \in DOMAIN pollDevices
    /\ new_status = pollDevices[mac].status
    /\ pollDevices' = [m \in DOMAIN pollDevices \ {mac} |-> pollDevices[m]]
    /\ pollPc' = IF DOMAIN pollDevices = {mac} THEN "loop" ELSE "sweep"
    /\ UNCHANGED <<device_states, disk, clock, running, discPc, discSeen, discMac, discBefore>>
    /\ UNCHANGED auxVars

\* ---- polling_thread: tracker.update_device_status(mac, new_status) ----
LockResultEnter(mac, new_status) ==
    /\ pollPc = "sweep"
    /\ mac \in DOMAIN pollDevices
    /\ new_status # pollDevices[mac].status
    /\ acquire("polling")
    /\ update_device_status_enter(mac, new_status)
    /\ pollDevices' = [m \in DOMAIN pollDevices \ {mac} |-> pollDevices[m]]
    /\ pollPc' = "result_cs"
    /\ UNCHANGED <<disk, running, discPc, discSeen, discMac, discBefore>>
    /\ UNCHANGED <<cfgVars, sweepVars, pingVars, moreVars>>

LockResultLeave ==
    /\ pollPc = "result_cs"
    /\ write_and_release("polling")
    /\ pollPc' = IF DOMAIN pollDevices = {} THEN "loop" ELSE "sweep"
    /\ UNCHANGED <<device_states, clock, running, discPc, discSeen, discMac, discBefore,
                   pollDevices>>
    /\ UNCHANGED <<cfgVars, sweepVars, pingVars, moreVars>>

NextLock ==
    \/ Start
    \/ Stop
    \/ DiscoveryScan
    \/ \E pair \in ScanPairs : LockRegisterEnter(pair[1], pair[2], pair[3])
    \/ LockRegisterLeave
    \/ LockUpdateEnter
    \/ LockUpdateLeave
    \/ DiscoverySleep
    \/ DiscoveryExit
    \/ LockSnapshotEnter
    \/ LockSnapshotLeave
    \/ \E mac \in MACs, new_status \in StatusValues : LockResultSame(mac, new_status)
    \/ \E mac \in MACs, new_status \in StatusValues : LockResultEnter(mac, new_status)
    \/ LockResultLeave
    \/ PollExit

SpecLock == Init /\ [][NextLock]_vars

\* thread t is inside one of the three calls of the Tracker
InCall(t) ==
    IF t = "discovery" THEN discPc \in {"register_cs", "update_cs"}
    ELSE pollPc \in {"snapshot_cs", "result_cs"}

\* the map entry of every known device agrees with the last line of its history
Settled ==
    \A m \in DOMAIN device_states :
        /\ History(m) # <<>>
        /\ History(m)[Len(History(m))].status = device_states[m].status
        /\ History(m)[Len(History(m))].timestamp = device_states[m].last_change

\* C11: add_or_update_device, update_device_status and get_all_devices are
\* mutually exclusive: the two threads are never inside a call at the same
\* time, and whenever a thread enters a call no line is waiting to be
\* written and the map entry of every known device agrees with the last line
\* of its history.
C11_MutuallyExclusive ==
    [][ /\ ~(InCall("discovery")' /\ InCall("polling")')
        /\ \A t \in Threads :
              (~InCall(t) /\ InCall(t)') => (pendingWrite = NoWrite /\ Settled)
      ]_vars

\* the polling thread has changed the map and not yet written the line, while
\* the discovery thread stands before its call of update_device_status
C11_Witness ==
    /\ lock = "polling"
    /\ pendingWrite # NoWrite
    /\ ~Settled
    /\ discPc = "update"


\* C12: the list get_all_devices returned is a copy: a later call of
\* add_or_update_device or update_device_status changes nothing in the part
\* of the snapshot the polling thread still holds.
C12_SnapshotIsCopy ==
    [][ ( \/ \E pair \in ScanPairs : RegisterCall(pair[1], pair[2], pair[3])
          \/ \E mac \in MACs, new_status \in StatusValues :
                SetStatusCall(mac, new_status) )
        => \A m \in DOMAIN pollDevices' :
              m \in DOMAIN pollDevices /\ pollDevices'[m] = pollDevices[m]
      ]_vars

\* the polling thread holds a snapshot in which a device has another status
\* than the Tracker now has for it
C12_Witness ==
    /\ pollPc = "sweep"
    /\ \E m \in DOMAIN pollDevices :
          /\ m \in DOMAIN device_states
          /\ pollDevices[m].status # device_states[m].status


(***************************************************************************)
(* NetworkMonitor._get_device_config: the patch of the first override      *)
(* pattern that matches the label.  A pattern is a sequence of characters  *)
(* and of the token ".*"; as with re.match it has to match at the start of *)
(* the label and need not reach its end.                                   *)
(***************************************************************************)
AnyChars == ".*"

RECURSIVE Matches(_, _)
Matches(pattern, hostname) ==
    IF pattern = <<>> THEN TRUE
    ELSE IF Head(pattern) = AnyChars
         THEN \E k \in 0..Len(hostname) :
                 Matches(Tail(pattern), SubSeq(hostname, k + 1, Len(hostname)))
         ELSE /\ hostname # <<>>
              /\ Head(hostname) = Head(pattern)
              /\ Matches(Tail(pattern), Tail(hostname))

\* the values of the configuration outside the overrides
GlobalDefaults ==
    { <<"polling_interval_seconds", 3>>, <<"ping_timeout_seconds", 2>>,
      <<"ping_count", 3>> }

\* the keys of a patch
Keys(patch) == { kv[1] : kv \in patch }

\* the indices of the overrides whose pattern matches the label
Hits(hostname) ==
    { i \in 1..Len(device_overrides) :
        Matches(device_overrides[i].pattern, hostname) }

Min(S) == CHOOSE x \in S : \A y \in S : x <= y

Max(S) == CHOOSE x \in S : \A y \in S : x >= y

\* variant: the loop over the overrides does not stop at the first match
_get_device_config_last(hostname) ==
    IF Hits(hostname) = {} THEN {}
    ELSE device_overrides[Max(Hits(hostname))].patch

\* variant: the keys the matched patch does not set are filled from the
\* global configuration
_get_device_config_defaults(hostname) ==
    IF Hits(hostname) = {} THEN {}
    ELSE LET patch == device_overrides[Min(Hits(hostname))].patch
         IN  patch \cup { kv \in GlobalDefaults : kv[1] \notin Keys(patch) }

_get_device_config(hostname) ==
    IF Hits(hostname) = {} THEN {}
    ELSE device_overrides[Min(Hits(hostname))].patch

\* does the effective configuration of the label disable polling
PollingDisabled(hostname) ==
    <<"disable_polling", TRUE>> \in _get_device_config(hostname)

OverridePatterns ==
    { <<"E", AnyChars>>, <<AnyChars>>, <<"G">>, <<"a", "/">> }

OverridePatches ==
    { {<<"ping_count", 5>>, <<"ping_timeout_seconds", 5>>},
      {<<"polling_interval_seconds", 60>>},
      {<<"disable_polling", TRUE>>} }

ConfigHostnames == { <<"E", "-", "4">>, <<"G", "-", "1">>, <<"G">>, <<"a", "/">>, <<"T">> }

\* the lists of at most MaxOverrides overrides; the patterns are the keys of
\* a dict, so no pattern is twice in a list
OverrideLists ==
    { l \in UNION { [1..n -> [pattern : OverridePatterns, patch : OverridePatches]] :
                    n \in 0..MaxOverrides } :
        \A i, j \in 1..Len(l) : l[i].pattern = l[j].pattern => i = j }

InitConfig ==
    /\ CoreInit
    /\ LockInit
    /\ device_overrides \in OverrideLists
    /\ CfgInit
    /\ max_workers = DefaultWorkers
    /\ SweepIdle
    /\ PingInit
    /\ MoreInit

\* a call self._get_device_config(hostname)
ConfigLookup(hostname) ==
    /\ cfgHostname' = hostname
    /\ cfgResult' = << _get_device_config(hostname) >>
    /\ UNCHANGED <<device_states, disk, clock, running, discPc, discSeen, discMac, discBefore,
                   pollPc, pollDevices, lockVars, device_overrides, sweepVars,
                   pingVars, moreVars>>

NextConfig == \E hostname \in ConfigHostnames : ConfigLookup(hostname)

SpecConfig == InitConfig /\ [][NextConfig]_vars

\* C13: override resolution is first-match-wins in declaration order: the
\* patch returned for a label is the patch of the first override whose
\* pattern matches it, whatever later patterns match it too, and nothing of
\* the patches of those later overrides is merged into it.
C13_FirstMatchWins ==
    cfgResult # <<>> =>
        \A i \in 1..Len(device_overrides) :
            ( /\ Matches(device_overrides[i].pattern, cfgHostname)
              /\ \A j \in 1..(i - 1) :
                    ~Matches(device_overrides[j].pattern, cfgHostname) )
            => cfgResult[1] = device_overrides[i].patch

\* a lookup of a label that two overrides with different patches match
C13_Witness ==
    /\ cfgResult # <<>>
    /\ Len(device_overrides) = 2
    /\ Matches(device_overrides[1].pattern, cfgHostname)
    /\ Matches(device_overrides[2].pattern, cfgHostname)
    /\ device_overrides[1].patch # device_overrides[2].patch
    /\ cfgResult[1] = device_overrides[1].patch

\* C14: _get_device_config returns exactly a matched patch, with the keys of
\* that patch only and no key filled from the global defaults, and it returns
\* the empty patch when no override is configured or no pattern matches.
C14_ExactlyTheMatchedPatch ==
    cfgResult # <<>> =>
        /\ (\A i \in 1..Len(device_overrides) :
               ~Matches(device_overrides[i].pattern, cfgHostname))
           => cfgResult[1] = {}
        /\ (\E i \in 1..Len(device_overrides) :
               Matches(device_overrides[i].pattern, cfgHostname))
           => \E i \in 1..Len(device_overrides) :
                 /\ Matches(device_overrides[i].pattern, cfgHostname)
                 /\ Keys(cfgResult[1]) = Keys(device_overrides[i].patch)
                 /\ cfgResult[1] = device_overrides[i].patch

\* a lookup that returned a patch without the keys of the global defaults,
\* under overrides of which one does not match the label
C14_Witness ==
    /\ cfgResult # <<>>
    /\ cfgResult[1] # {}
    /\ Keys(cfgResult[1]) \cap Keys(GlobalDefaults) = {}
    /\ \E i \in 1..Len(device_overrides) :
          ~Matches(device_overrides[i].pattern, cfgHostname)


\* C15 as stated: a device whose effective configuration disables polling is
\* skipped by the polling loop: no probe result is ever handled for it, and
\* so polling never changes its status.
C15_Original ==
    [][\A mac \in MACs, new_status \in StatusValues :
          PollResult(mac, new_status)
          => ~PollingDisabled(pollDevices[mac].hostname)]_vars


(***************************************************************************)
(* The schedule of one polling sweep: polling_thread submits one           *)
(* _check_device task per device of the snapshot to a ThreadPoolExecutor   *)
(* of max_workers threads; a task sleeps its stagger delay and then runs   *)
(* the probe.  Sweep time is counted from the creation of the executor in  *)
(* units of polling_interval / LcmUpTo(MaxDevices), so that the division   *)
(* of the interval by every number of devices is exact (the code divides   *)
(* floats).  Submitting a task and handing it to a free thread take no     *)
(* time; a sleep takes exactly its delay.  After a sweep sweepClock is the  *)
(* time from its snapshot to the next snapshot.                            *)
(***************************************************************************)
RECURSIVE Gcd(_, _)
Gcd(a, b) == IF b = 0 THEN a ELSE Gcd(b, a % b)

RECURSIVE LcmUpTo(_)
LcmUpTo(n) == IF n <= 1 THEN 1 ELSE (n * LcmUpTo(n - 1)) \div Gcd(n, LcmUpTo(n - 1))

\* config['polling_interval_seconds'] in units of sweep time
polling_interval == LcmUpTo(MaxDevices)

\* ---- polling_thread: stagger_delay = polling_interval / num_devices ----
stagger_delay(n) == IF n > 0 THEN polling_interval \div n ELSE 0

\* variant: the devices are counted from one
delay_from_one(i, n) == (i + 1) * stagger_delay(n)

\* ---- polling_thread: delay = i * stagger_delay ----
delay(i, n) == i * stagger_delay(n)

NoTime == -1

\* the tasks that hold a thread of the executor
InFlight == { k \in 1..Len(tasks) : tasks[k].state \in {"sleeping", "probing"} }

Queued == { k \in 1..Len(tasks) : tasks[k].state = "queued" }

InitSweep ==
    /\ CoreInit
    /\ LockInit
    /\ device_overrides = <<>>
    /\ CfgInit
    /\ max_workers \in 1..MaxWorkers
    /\ SweepIdle
    /\ PingInit
    /\ MoreInit

\* get_all_devices has returned n devices and the executor is created
SweepBegin(n) ==
    /\ num_devices = 0
    /\ num_devices' = n
    /\ tasks' = <<>>
    /\ sweepClock' = 0
    /\ UNCHANGED <<device_states, disk, clock, running, discPc, discSeen, discMac, discBefore,
                   pollPc, pollDevices, lockVars, cfgVars, pingVars, moreVars, max_workers, sweepRaised>>

\* executor.submit(self._check_device, device, delay) for the next device
SweepSubmit ==
    /\ Len(tasks) < num_devices
    /\ ~sweepRaised
    /\ tasks' = Append(tasks, [delay |-> delay(Len(tasks), num_devices),
                               state |-> "queued", wake |-> NoTime,
                               probeStart |-> NoTime])
    /\ UNCHANGED <<device_states, disk, clock, running, discPc, discSeen, discMac, discBefore,
                   pollPc, pollDevices, lockVars, cfgVars, pingVars, moreVars, max_workers,
                   num_devices, sweepClock, sweepRaised>>

\* variant: the executor starts a thread for every task
WorkerStart_unbounded(k) ==
    /\ k \in Queued
    /\ \A j \in Queued : k <= j
    /\ tasks' = [tasks EXCEPT ![k] =
                    IF tasks[k].delay > 0
                    THEN [@ EXCEPT !.state = "sleeping",
                                   !.wake = sweepClock + tasks[k].delay]
                    ELSE [@ EXCEPT !.state = "probing", !.probeStart = sweepClock]]
    /\ UNCHANGED <<device_states, disk, clock, running, discPc, discSeen, discMac, discBefore,
                   pollPc, pollDevices, lockVars, cfgVars, pingVars, moreVars, max_workers,
                   num_devices, sweepClock, sweepRaised>>

\* a thread of the executor takes the oldest task of the queue and enters
\* _check_device: it sleeps if the delay is positive, else it starts the probe
WorkerStart(k) ==
    /\ k \in Queued
    /\ \A j \in Queued : k <= j
    /\ Cardinality(InFlight) < max_workers
    /\ tasks' = [tasks EXCEPT ![k] =
                    IF tasks[k].delay > 0
                    THEN [@ EXCEPT !.state = "sleeping",
                                   !.wake = sweepClock + tasks[k].delay]
                    ELSE [@ EXCEPT !.state = "probing", !.probeStart = sweepClock]]
    /\ UNCHANGED <<device_states, disk, clock, running, discPc, discSeen, discMac, discBefore,
                   pollPc, pollDevices, lockVars, cfgVars, pingVars, moreVars, max_workers,
                   num_devices, sweepClock, sweepRaised>>

\* time.sleep(stagger_delay) returns and the task calls is_online
ProbeStart(k) ==
    /\ k \in 1..Len(tasks)
    /\ tasks[k].state = "sleeping"
    /\ tasks[k].wake <= sweepClock
    /\ tasks' = [tasks EXCEPT ![k].state = "probing", ![k].probeStart = sweepClock]
    /\ UNCHANGED <<device_states, disk, clock, running, discPc, discSeen, discMac, discBefore,
                   pollPc, pollDevices, lockVars, cfgVars, pingVars, moreVars, max_workers,
                   num_devices, sweepClock, sweepRaised>>

\* is_online returns and with it the task
ProbeEnd(k) ==
    /\ k \in 1..Len(tasks)
    /\ tasks[k].state = "probing"
    /\ tasks' = [tasks EXCEPT ![k].state = "done"]
    /\ UNCHANGED <<device_states, disk, clock, running, discPc, discSeen, discMac, discBefore,
                   pollPc, pollDevices, lockVars, cfgVars, pingVars, moreVars, max_workers,
                   num_devices, sweepClock, sweepRaised>>

\* one unit of time passes: every task is submitted, no thread is free for a
\* queued task, no sleep is over and no probe has run its longest
SweepTick ==
    /\ num_devices > 0
    /\ Len(tasks) = num_devices \/ sweepRaised
    /\ \E k \in 1..Len(tasks) : tasks[k].state # "done"
    /\ Queued = {} \/ Cardinality(InFlight) >= max_workers
    /\ \A k \in 1..Len(tasks) :
          /\ tasks[k].state = "sleeping" => tasks[k].wake > sweepClock
          /\ tasks[k].state = "probing" => tasks[k].probeStart + MaxProbe > sweepClock
    /\ sweepClock' = sweepClock + 1
    /\ UNCHANGED <<device_states, disk, clock, running, discPc, discSeen, discMac, discBefore,
                   pollPc, pollDevices, lockVars, cfgVars, pingVars, moreVars, max_workers,
                   num_devices, tasks, sweepRaised>>

\* executor.submit raises: no further task is submitted
SweepRaise ==
    /\ Len(tasks) < num_devices
    /\ ~sweepRaised
    /\ sweepRaised' = TRUE
    /\ UNCHANGED <<device_states, disk, clock, running, discPc, discSeen, discMac, discBefore,
                   pollPc, pollDevices, lockVars, cfgVars, pingVars, moreVars, max_workers,
                   num_devices, tasks, sweepClock>>

\* time.sleep(30) of the handler of the loop, here twice the polling interval
fallback_sleep == 2 * polling_interval

\* the with block is left by the exception: shutdown(wait=True) has waited
\* for every task that was submitted; the handler of the loop sleeps
SweepEndRaised ==
    /\ sweepRaised
    /\ \A k \in 1..Len(tasks) : tasks[k].state = "done"
    /\ num_devices' = 0
    /\ tasks' = <<>>
    /\ sweepRaised' = FALSE
    /\ sweepClock' = sweepClock + fallback_sleep
    /\ UNCHANGED <<device_states, disk, clock, running, discPc, discSeen, discMac, discBefore,
                   pollPc, pollDevices, lockVars, cfgVars, pingVars, moreVars, max_workers>>

\* variant: the with block is left while tasks still run
SweepEnd_early ==
    /\ num_devices > 0
    /\ Len(tasks) = num_devices
    /\ num_devices' = 0
    /\ tasks' = tasks
    /\ sweepClock' = sweepClock + polling_interval
    /\ UNCHANGED <<device_states, disk, clock, running, discPc, discSeen, discMac, discBefore,
                   pollPc, pollDevices, lockVars, cfgVars, pingVars, moreVars, max_workers,
                   sweepRaised>>

\* every future has completed: the with block of the executor is left and
\* the loop sleeps polling_interval before it takes the next snapshot
SweepEnd ==
    /\ num_devices > 0
    /\ Len(tasks) = num_devices
    /\ \A k \in 1..Len(tasks) : tasks[k].state = "done"
    /\ num_devices' = 0
    /\ tasks' = <<>>
    /\ sweepClock' = sweepClock + polling_interval
    /\ UNCHANGED <<device_states, disk, clock, running, discPc, discSeen, discMac, discBefore,
                   pollPc, pollDevices, lockVars, cfgVars, pingVars, moreVars, max_workers, sweepRaised>>

NextSweep ==
    \/ \E n \in 1..MaxDevices : SweepBegin(n)
    \/ SweepSubmit
    \/ \E k \in 1..MaxDevices : WorkerStart(k)
    \/ \E k \in 1..MaxDevices : ProbeStart(k)
    \/ \E k \in 1..MaxDevices : ProbeEnd(k)
    \/ SweepTick
    \/ SweepEnd
    \/ SweepRaise
    \/ SweepEndRaised

SpecSweep == InitSweep /\ [][NextSweep]_vars

\* C16: the task of the device at index i of a snapshot of N devices is given
\* the delay i * (T / N), T the polling interval; when the executor has a
\* thread for every task, the probe of index i starts that long after the
\* probe of index 0, the last one (N - 1) * (T / N) after the first.
C16_StaggeredStart ==
    \A k \in 1..Len(tasks) :
        /\ tasks[k].delay * num_devices = (k - 1) * polling_interval
        /\ ( /\ num_devices <= max_workers
             /\ tasks[k].probeStart # NoTime )
           => /\ tasks[1].probeStart # NoTime
              /\ (tasks[k].probeStart - tasks[1].probeStart) * num_devices
                     = (k - 1) * polling_interval

\* a sweep of MaxDevices devices with a thread for each: the last probe has
\* started
C16_Witness ==
    /\ num_devices = MaxDevices
    /\ max_workers >= MaxDevices
    /\ Len(tasks) = num_devices
    /\ tasks[num_devices].probeStart # NoTime
    /\ tasks[num_devices].probeStart > tasks[1].probeStart

\* C17: at every moment the number of tasks that have started and have not
\* finished is at most the size of the worker pool; the tasks beyond it are
\* in the queue.
C17_InFlightWithinPool ==
    /\ Cardinality(InFlight) <= max_workers
    /\ \A k \in 1..Len(tasks) :
          k \notin InFlight =>
              \/ tasks[k].state = "done"
              \/ /\ k \in Queued
                 /\ tasks[k].wake = NoTime
                 /\ tasks[k].probeStart = NoTime

\* every thread of the pool is taken and a task waits in the queue
C17_Witness ==
    /\ Cardinality(InFlight) = max_workers
    /\ Queued # {}

\* C33: sweeps do not overlap: a sweep ends, also by an exception, only when
\* every task it submitted has returned, between two sweeps no task runs or
\* waits, a snapshot is taken only then, and a sweep has at most one task for
\* each device of its snapshot.
C33_SweepsDoNotOverlap ==
    /\ [](num_devices = 0 => (InFlight = {} /\ Queued = {}))
    /\ [](Len(tasks) <= num_devices)
    /\ [][(SweepEnd \/ SweepEndRaised)
            => \A k \in 1..Len(tasks) : tasks[k].state = "done"]_vars
    /\ [][(\E n \in 1..MaxDevices : SweepBegin(n))
            => (InFlight = {} /\ Queued = {})]_vars

\* a sweep of several devices whose probes took time is over, and the next
\* snapshot has not been taken
C33_Witness ==
    /\ num_devices = 0
    /\ tasks = <<>>
    /\ sweepClock > 2 * polling_interval

\* every task of the sweep has returned
SweepDone ==
    /\ num_devices > 0
    /\ Len(tasks) = num_devices
    /\ \A k \in 1..Len(tasks) : tasks[k].state = "done"

\* C30 as stated: when the last probe of a sweep has finished, no more than
\* the polling interval has passed since the sweep began, and every snapshot
\* but the first is taken one polling interval after the snapshot before it.
C30_Original ==
    /\ [](SweepDone => sweepClock <= polling_interval)
    /\ [][((\E n \in 1..MaxDevices : SweepBegin(n)) /\ sweepClock > 0)
            => sweepClock = polling_interval]_vars


(***************************************************************************)
(* DevicePinger.is_online: one run of                                      *)
(*     ping -c ping_count -W timeout_seconds ip                            *)
(* under subprocess.run with timeout = timeout_seconds + 1.  Time is in    *)
(* seconds from the start of the command.  ping sends attempt k at         *)
(* (k - 1) * PingInterval; an attempt is answered within timeout_seconds   *)
(* or it is lost.  The command ends at the last answer when every attempt  *)
(* was answered, else no earlier than its last attempt and the answers it  *)
(* heard and no later than timeout_seconds after its last attempt.  It     *)
(* exits with 0 when it heard an answer, with 1 when it heard none, with 2 *)
(* on an error of its own.                                                 *)
(***************************************************************************)
\* seconds between two attempts of ping (its default interval)
PingInterval == 1

\* timeout=self.timeout_seconds + 1
PingGrace == 1

Lost == -1

\* the attempts of a run that were answered
Answered(replies) == { k \in 1..Len(replies) : replies[k] # Lost }

\* the times at which a run with these answers can end
EndTimes(replies, timeout) ==
    LET last  == (Len(replies) - 1) * PingInterval
        heard == { (k - 1) * PingInterval + replies[k] : k \in Answered(replies) }
        lower == Max({last} \cup heard)
    IN  IF Answered(replies) = 1..Len(replies) THEN {lower}
        ELSE lower..Max({lower, last + timeout})

\* what the command can do in one call: it cannot be started, it fails on
\* its own, or it makes its attempts; late says whether a command that ends
\* at the very limit of subprocess.run is taken to have timed out
PingRuns(count, timeout) ==
    { [launch |-> "FileNotFoundError", error |-> FALSE, replies |-> <<>>,
       end |-> 0, late |-> FALSE],
      [launch |-> "ok", error |-> TRUE, replies |-> <<>>, end |-> 0,
       late |-> FALSE] }
    \cup
    UNION { UNION { { [launch |-> "ok", error |-> FALSE, replies |-> replies,
                       end |-> end, late |-> late] :
                      late \in IF end = timeout + PingGrace THEN BOOLEAN ELSE {FALSE} } :
                    end \in EndTimes(replies, timeout) } :
            replies \in [1..count -> {Lost} \cup 0..timeout] }

\* the exit code of ping
returncode(run) ==
    IF run.error THEN 2
    ELSE IF Answered(run.replies) # {} THEN 0 ELSE 1

\* ---- subprocess.run(..., timeout=limit): the exception it raises, or "" ----
subprocess_run(run, limit) ==
    IF run.launch # "ok" THEN [raises |-> run.launch, returncode |-> -1]
    ELSE IF run.end > limit \/ (run.end = limit /\ run.late)
         THEN [raises |-> "TimeoutExpired", returncode |-> -1]
         ELSE [raises |-> "", returncode |-> returncode(run)]

\* variant: only the timeout of subprocess.run is caught
is_online_narrow(run) ==
    LET result == subprocess_run(run, timeout_seconds + PingGrace)
    IN  IF result.raises = "" THEN [raised |-> FALSE, value |-> result.returncode = 0]
        ELSE IF result.raises = "TimeoutExpired"
             THEN [raised |-> FALSE, value |-> FALSE]
             ELSE [raised |-> TRUE, value |-> FALSE]

\* ---- DevicePinger.is_online ----
is_online(run) ==
    LET result == subprocess_run(run, timeout_seconds + PingGrace)
    IN  IF result.raises = "" THEN [raised |-> FALSE, value |-> result.returncode = 0]
        ELSE [raised |-> FALSE, value |-> FALSE]

InitPing ==
    /\ CoreInit
    /\ LockInit
    /\ device_overrides = <<>>
    /\ CfgInit
    /\ max_workers = DefaultWorkers
    /\ SweepIdle
    /\ timeout_seconds \in 1..MaxPingTimeout
    /\ ping_count \in 1..MaxPingCount
    /\ pingRun = <<>>
    /\ pingResult = <<>>
    /\ MoreInit

\* a call self.pinger.is_online(ip) during which the command does run
IsOnlineCall ==
    /\ pingResult = <<>>
    /\ \E run \in PingRuns(ping_count, timeout_seconds) :
          /\ pingRun' = <<run>>
          /\ pingResult' = << is_online(run) >>
    /\ UNCHANGED <<device_states, disk, clock, running, discPc, discSeen, discMac, discBefore,
                   pollPc, pollDevices, lockVars, cfgVars, sweepVars, moreVars,
                   timeout_seconds, ping_count>>

\* _check_device has taken the value is_online returned
CheckDeviceReturn ==
    /\ pingResult # <<>>
    /\ ~pingResult[1].raised
    /\ pingRun' = <<>>
    /\ pingResult' = <<>>
    /\ UNCHANGED <<device_states, disk, clock, running, discPc, discSeen, discMac, discBefore,
                   pollPc, pollDevices, lockVars, cfgVars, sweepVars, moreVars,
                   timeout_seconds, ping_count>>

NextPing ==
    \/ IsOnlineCall
    \/ CheckDeviceReturn

SpecPing == InitPing /\ [][NextPing]_vars

\* C18: is_online never raises: whatever the command does, the call returns
\* a boolean, and it returns false when the command could not be run, when
\* it failed and when subprocess.run timed out.
C18_NeverRaises ==
    pingResult # <<>> =>
        /\ ~pingResult[1].raised
        /\ pingResult[1].value \in BOOLEAN
        /\ ( \/ pingRun[1].launch # "ok"
             \/ pingRun[1].error
             \/ subprocess_run(pingRun[1], timeout_seconds + PingGrace).raises # "" )
           => pingResult[1].value = FALSE

\* a call in which the command could not be started has returned false
C18_Witness ==
    /\ pingResult # <<>>
    /\ pingRun[1].launch = "FileNotFoundError"
    /\ pingResult[1] = [raised |-> FALSE, value |-> FALSE]

\* C19 as stated: is_online returns true exactly when at least one of the
\* attempts of the command was answered within the timeout.
C19_Original ==
    pingResult # <<>> =>
        (pingResult[1].value <=> Answered(pingRun[1].replies) # {})


(***************************************************************************)
(* The life of the coordinator.  After the stop signal start sleeps two    *)
(* seconds and returns; the two threads are daemon threads, so the process *)
(* then ends whether or not they have left their loops.                    *)
(***************************************************************************)
\* ---- NetworkMonitor.start: the return after KeyboardInterrupt ----
ProcessEnd ==
    /\ ~running
    /\ discPc # "none"
    /\ Restart

SpecLive == Spec /\ WF_vars(ProcessEnd)

\* the loop of either thread is left, or was never entered
LoopsOver ==
    /\ discPc \in {"exited", "none"}
    /\ pollPc \in {"exited", "none"}

\* C20: the coordinator is stopped after construction; start makes it
\* running with both loops launched; a loop that finds the stop signal at
\* the head of its loop begins no further iteration; and once stop is
\* signalled both loops are eventually over.
C20_Lifecycle ==
    /\ (~running /\ discPc = "none" /\ pollPc = "none")
    /\ [][Start => (~running /\ running' /\ discPc' = "loop" /\ pollPc' = "loop")]_vars
    /\ [][(~running /\ discPc = "loop") => discPc' \in {"loop", "exited", "none"}]_vars
    /\ [][(~running /\ pollPc = "loop") => pollPc' \in {"loop", "exited", "none"}]_vars
    /\ ((~running /\ discPc # "none") ~> LoopsOver)

\* stop was signalled while both loops ran and both have left their loops on
\* finding it
C20_Witness ==
    /\ ~running
    /\ discPc = "exited"
    /\ pollPc = "exited"

(***************************************************************************)
(* The two loops with failures in the body of an iteration.  open and      *)
(* f.write of the tracker raise OSError when the storage fails, the        *)
(* scanner raises what scan does not catch, a probe task raises out of     *)
(* future.result, and executor.submit raises when no thread can be         *)
(* started.  The tracker has no handler of its own: what it raises leaves  *)
(* the call after the lines that changed device_states.  One life of the   *)
(* process is followed, from start to the end of the loops.                *)
(***************************************************************************)
\* ---- DeviceTracker.add_or_update_device: open or f.write raises ----
add_or_update_device_raises(mac, ip, hostname) ==
    /\ mac \notin DOMAIN device_states
    /\ \E now \in Now :
         /\ clock' = now
         /\ device_states' =
                (mac :> [hostname |-> hostname, ip |-> ip, status |-> "online",
                         last_change |-> now]) @@ device_states
         /\ disk' = disk

\* ---- DeviceTracker.update_device_status: open or f.write raises ----
update_device_status_raises(mac, new_status) ==
    /\ mac \in DOMAIN device_states
    /\ device_states[mac].status # new_status
    /\ \E now \in Now :
         /\ clock' = now
         /\ device_states' =
                [device_states EXCEPT ![mac].status = new_status,
                                      ![mac].last_change = now]
         /\ disk' = disk

\* ---- NetworkMonitor.discovery_thread: except Exception ----
\* self.scanner.scan raises
DiscoveryScanRaises ==
    /\ discPc = "loop" /\ running
    /\ discPc' = "fallback"
    /\ discSeen' = {}
    /\ UNCHANGED <<device_states, disk, clock, running, discMac, discBefore, pollPc, pollDevices>>
    /\ UNCHANGED auxVars

\* add_or_update_device raises
DiscoveryRegisterRaises(mac, ip, hostname) ==
    /\ discPc = "register"
    /\ mac \notin discSeen
    /\ add_or_update_device_raises(mac, ip, hostname)
    /\ discPc' = "fallback"
    /\ discSeen' = {}
    /\ UNCHANGED <<running, discMac, discBefore, pollPc, pollDevices>>
    /\ UNCHANGED auxVars

\* update_device_status raises
DiscoveryUpdateRaises ==
    /\ discPc = "update"
    /\ update_device_status_raises(discMac, "online")
    /\ discPc' = "fallback"
    /\ discSeen' = {}
    /\ discMac' = NoMac
    /\ discBefore' = NoMac
    /\ UNCHANGED <<running, pollPc, pollDevices>>
    /\ UNCHANGED auxVars

\* variant: the handler of the loop leaves the loop
DiscoveryFallbackOver_break ==
    /\ discPc = "fallback"
    /\ discPc' = "exited"
    /\ UNCHANGED <<device_states, disk, clock, running, discSeen, discMac, discBefore,
                   pollPc, pollDevices>>
    /\ UNCHANGED auxVars

\* time.sleep(60) is over: back to the head of the loop
DiscoveryFallbackOver ==
    /\ discPc = "fallback"
    /\ discPc' = "loop"
    /\ UNCHANGED <<device_states, disk, clock, running, discSeen, discMac, discBefore,
                   pollPc, pollDevices>>
    /\ UNCHANGED auxVars

\* ---- NetworkMonitor.polling_thread: the handler inside as_completed ----
\* future.result raises: the task of mac failed
PollTaskRaises(mac) ==
    /\ pollPc = "sweep"
    /\ mac \in DOMAIN pollDevices
    /\ pollDevices' = [m \in DOMAIN pollDevices \ {mac} |-> pollDevices[m]]
    /\ pollPc' = IF DOMAIN pollDevices = {mac} THEN "loop" ELSE "sweep"
    /\ UNCHANGED <<device_states, disk, clock, running, discPc, discSeen, discMac, discBefore>>
    /\ UNCHANGED auxVars

\* update_device_status raises in the body of the as_completed loop
PollResultRaises(mac, new_status) ==
    /\ pollPc = "sweep"
    /\ mac \in DOMAIN pollDevices
    /\ new_status # pollDevices[mac].status
    /\ update_device_status_raises(mac, new_status)
    /\ pollDevices' = [m \in DOMAIN pollDevices \ {mac} |-> pollDevices[m]]
    /\ pollPc' = IF DOMAIN pollDevices = {mac} THEN "loop" ELSE "sweep"
    /\ UNCHANGED <<running, discPc, discSeen, discMac, discBefore>>
    /\ UNCHANGED auxVars

\* ---- NetworkMonitor.polling_thread: except Exception of the loop ----
\* executor.submit raises
PollSweepRaises ==
    /\ pollPc = "sweep"
    /\ pollPc' = "fallback"
    /\ pollDevices' = <<>>
    /\ UNCHANGED <<device_states, disk, clock, running, discPc, discSeen, discMac, discBefore>>
    /\ UNCHANGED auxVars

\* time.sleep(30) is over: back to the head of the loop
PollFallbackOver ==
    /\ pollPc = "fallback"
    /\ pollPc' = "loop"
    /\ UNCHANGED <<device_states, disk, clock, running, discPc, discSeen, discMac, discBefore,
                   pollDevices>>
    /\ UNCHANGED auxVars

\* the steps of the discovery thread and of the polling thread
DiscoveryThread ==
    \/ DiscoveryScan
    \/ \E pair \in ScanPairs : DiscoveryRegister(pair[1], pair[2], pair[3])
    \/ DiscoveryUpdate
    \/ DiscoverySleep
    \/ DiscoveryExit
    \/ DiscoveryScanRaises
    \/ \E pair \in ScanPairs : DiscoveryRegisterRaises(pair[1], pair[2], pair[3])
    \/ DiscoveryUpdateRaises
    \/ DiscoveryFallbackOver

PollingThread ==
    \/ PollSnapshot
    \/ \E mac \in MACs, new_status \in StatusValues : PollResult(mac, new_status)
    \/ PollExit
    \/ \E mac \in MACs : PollTaskRaises(mac)
    \/ \E mac \in MACs, new_status \in StatusValues : PollResultRaises(mac, new_status)
    \/ PollSweepRaises
    \/ PollFallbackOver

NextIO ==
    \/ Start
    \/ Stop
    \/ DiscoveryThread
    \/ PollingThread

\* the file an earlier life of the process left: m1 was registered and was
\* found offline one tick later
EarlierDisk ==
    << [file |-> <<"a">>, timestamp |-> 0, ip |-> "ip1", mac |-> "m1",
        status |-> "online", interval |-> 0],
       [file |-> <<"a">>, timestamp |-> 1, ip |-> "ip1", mac |-> "m1",
        status |-> "offline", interval |-> FormatInterval(1)] >>

\* the monitor is constructed over that file
InitIO ==
    /\ disk = EarlierDisk
    /\ device_states \in _load_device_states(disk)
    /\ clock = 1
    /\ running = FALSE
    /\ discPc = "none"
    /\ discSeen = {}
    /\ discMac = NoMac
    /\ discBefore = NoMac
    /\ pollPc = "none"
    /\ pollDevices = <<>>
    /\ LockInit
    /\ device_overrides = MonitorOverrides
    /\ CfgInit
    /\ max_workers = DefaultWorkers
    /\ SweepIdle
    /\ PingInit
    /\ MoreInit

\* a thread that can take a step is scheduled in the end, and a sleep ends
SpecIO == InitIO /\ [][NextIO]_vars /\ WF_vars(DiscoveryThread) /\ WF_vars(PollingThread)

\* an iteration of the discovery loop fails
DiscoveryRaises ==
    \/ DiscoveryScanRaises
    \/ \E pair \in ScanPairs : DiscoveryRegisterRaises(pair[1], pair[2], pair[3])
    \/ DiscoveryUpdateRaises

\* the handling of one probe result fails
PollOneRaises ==
    \/ \E mac \in MACs : PollTaskRaises(mac)
    \/ \E mac \in MACs, new_status \in StatusValues : PollResultRaises(mac, new_status)

C24_Original ==
    [][\A m \in MACs :
          ( \/ (m \notin DOMAIN device_states /\ m \in DOMAIN device_states')
            \/ /\ m \in DOMAIN device_states /\ m \in DOMAIN device_states'
               /\ device_states'[m].status # device_states[m].status )
          => /\ Len(disk') = Len(disk) + 1
             /\ disk'[Len(disk')].mac = m
             /\ disk'[Len(disk')].status = device_states'[m].status]_vars

\* C26 as stated: between the calls of the Tracker every known device has a
\* history, and its status and the time of its last change in memory are
\* those of the last line of that history.
C26_Original ==
    lock = "free" =>
        \A m \in DOMAIN device_states :
            LET h == History(m)
            IN  /\ Len(h) > 0
                /\ h[Len(h)].status = device_states[m].status
                /\ h[Len(h)].timestamp = device_states[m].last_change

\* C25 as stated: when the polling loop handles a probe result that differs
\* from the status the Tracker holds for the device at that moment, the
\* status of the Tracker becomes the probe result.
C25_Original ==
    [][\A mac \in MACs, new_status \in StatusValues :
          ( /\ PollResult(mac, new_status)
            /\ mac \in DOMAIN device_states
            /\ device_states[mac].status # new_status )
          => device_states'[mac].status = new_status]_vars

\* C27 as stated: the devices the Tracker knows have pairwise distinct
\* storage identifiers, and all lines of one history stream carry the mac of
\* one device.
C27_Original ==
    /\ \A m1, m2 \in DOMAIN device_states :
          m1 # m2 => _get_filename(device_states[m1].hostname)
                        # _get_filename(device_states[m2].hostname)
    /\ \A i, j \in 1..Len(disk) :
          disk[i].file = disk[j].file => disk[i].mac = disk[j].mac

(***************************************************************************)
(* DeviceTracker._get_filename as a function of its own: the label is any  *)
(* string over an alphabet that holds a letter, a digit, the two marks     *)
(* that are kept, a path separator, a dot and a space.                     *)
(***************************************************************************)
MaxLabelLen == 3

LabelChars == {"a", "1", "-", "_", "/", ".", " "}

\* the strings over LabelChars of length n
RECURSIVE LabelsOfLen(_)
LabelsOfLen(n) ==
    IF n = 0 THEN { <<>> }
    ELSE { <<c>> \o l : c \in LabelChars, l \in LabelsOfLen(n - 1) }

Labels == UNION { LabelsOfLen(n) : n \in 0..MaxLabelLen }

InitFilename ==
    /\ CoreInit
    /\ LockInit
    /\ device_overrides = <<>>
    /\ CfgInit
    /\ max_workers = DefaultWorkers
    /\ SweepIdle
    /\ PingInit
    /\ LookupInit
    /\ fnLabel \in Labels
    /\ fnName = <<>>
    /\ CallIdle

\* a call self._get_filename(hostname)
GetFilename ==
    /\ fnName = <<>>
    /\ fnName' = << _get_filename(fnLabel) >>
    /\ UNCHANGED <<device_states, disk, clock, running, discPc, discSeen, discMac, discBefore,
                   pollPc, pollDevices, lockVars, cfgVars, sweepVars, pingVars,
                   lookupVars, fnLabel, callVars>>

\* _load_device_states: the device of a file gets the file name as its label
LoadHostname ==
    /\ fnName # <<>>
    /\ fnLabel' = fnName[1]
    /\ fnName' = <<>>
    /\ UNCHANGED <<device_states, disk, clock, running, discPc, discSeen, discMac, discBefore,
                   pollPc, pollDevices, lockVars, cfgVars, sweepVars, pingVars,
                   lookupVars, callVars>>

NextFilename ==
    \/ GetFilename
    \/ LoadHostname

SpecFilename == InitFilename /\ [][NextFilename]_vars

\* C23: the file name of every label is not empty, holds only alphanumeric
\* characters, '-' and '_', does not begin with '-' or '_', and is
\* 'unknown-device' when none of the characters of the label is left.
C23_SafeFilename ==
    fnName # <<>> =>
        LET name == fnName[1]
        IN  /\ Len(name) > 0
            /\ \A i \in 1..Len(name) : name[i] \in AlnumChars \cup {"-", "_"}
            /\ name[1] \notin {"-", "_"}
            /\ (\A i \in 1..Len(fnLabel) : fnLabel[i] \notin AlnumChars)
               => name = UnknownDevice

\* a label of a path separator between marks that are stripped has the file
\* name 'unknown-device', and a label that holds a separator and a leading
\* mark has its letter as file name
C23_Witness ==
    \/ fnLabel = <<"-", "/", "_">> /\ fnName = << UnknownDevice >>
    \/ fnLabel = <<"_", "/", "a">> /\ fnName = << <<"a">> >>

(***************************************************************************)
(* MacVendorLookup.  A mac is the string arp-scan printed, in lower case   *)
(* with colons; a vendor, a label and a DNS name are strings too, all      *)
(* written as sequences of characters.  The scanner calls                  *)
(* generate_hostname from the discovery thread only, one call at a time.   *)
(***************************************************************************)
MaxCalls == 4

\* two macs of one vendor prefix that end alike, and a mac of another prefix
LookupMacs ==
    { <<"7","4",":","b","6",":","b","6",":","0","0",":","0","0",":","a","1">>,
      <<"7","4",":","b","6",":","b","6",":","0","1",":","0","0",":","a","1">>,
      <<"0","0",":","1","1",":","2","2",":","0","0",":","0","0",":","a","1">> }

LookupIp == <<"1", ".", "2">>

\* dns_hostname: None, the address itself, or a name
DnsNames == { <<>>, LookupIp, <<"h", ".", "x">> }

\* ---- str.replace(old, new) for one character, and str.upper ----
replace(s, old, new) ==
    [i \in 1..Len(s) |-> IF s[i] = old THEN new ELSE s[i]]

remove(s, old) == SelectSeq(s, LAMBDA c : c # old)

upper(s) ==
    [i \in 1..Len(s) |->
        CASE s[i] = "a" -> "A" [] s[i] = "b" -> "B" [] s[i] = "c" -> "C"
          [] s[i] = "d" -> "D" [] s[i] = "e" -> "E" [] s[i] = "f" -> "F"
          [] OTHER -> s[i]]

\* mac.replace(':', '').replace('-', '').upper()[:6]
oui(mac) ==
    LET hex == upper(remove(remove(mac, ":"), "-"))
    IN  SubSeq(hex, 1, IF Len(hex) < 6 THEN Len(hex) ELSE 6)

\* mac.replace(':', '')[-4:].upper()
last4(mac) ==
    LET hex == remove(mac, ":")
    IN  upper(SubSeq(hex, IF Len(hex) < 4 THEN 1 ELSE Len(hex) - 3, Len(hex)))

Unknown == <<"U", "n", "k", "n", "o", "w", "n">>

\* common_vendors.get(oui, 'Unknown'): the entry of Eero, and the default
common_vendors(prefix) ==
    IF prefix = <<"7", "4", "B", "6", "B", "6">> THEN <<"E", "e", "r", "o">>
    ELSE Unknown

\* what requests.get can bring: <<>> for an exception or a status other than
\* 200, else the vendor data.get('company', 'Unknown') gives
Replies(mac) ==
    { <<>>,
      << IF oui(mac) = <<"7", "4", "B", "6", "B", "6">>
         THEN <<"E", "e", "r", "o", ",", " ", "I", ".">>
         ELSE Unknown >> }

\* ---- MacVendorLookup.get_vendor: the value returned ----
vendor_of(mac, reply) ==
    IF mac \in DOMAIN cache THEN cache[mac]
    ELSE IF reply # <<>> THEN reply[1]
    ELSE common_vendors(oui(mac))

\* ---- MacVendorLookup.get_vendor: what it does to the lookup ----
get_vendor(mac, reply) ==
    IF mac \in DOMAIN cache
    THEN UNCHANGED <<cache, requests>>
    ELSE /\ requests' = requests + 1
         /\ cache' = (mac :> vendor_of(mac, reply)) @@ cache

\* f"{vendor_clean}-{last4}"
base_hostname(vendor, mac) ==
    remove(remove(remove(vendor, ","), " "), ".") \o <<"-">> \o last4(mac)

\* the decimal digits of a count, as f"{count}" writes them
RECURSIVE Digits(_)
Digits(k) ==
    LET d == <<"0", "1", "2", "3", "4", "5", "6", "7", "8", "9">>
    IN  IF k < 10 THEN << d[k + 1] >>
        ELSE Digits(k \div 10) \o << d[(k % 10) + 1] >>

NoBase == <<>>

\* variant: the count of a base name is not raised by a further call
generate_hostname_stuck(mac, ip, dns_hostname, reply) ==
    IF dns_hostname # <<>> /\ dns_hostname # ip
    THEN /\ issued' = Append(issued,
                [mac |-> mac, base |-> NoBase,
                 label |-> replace(replace(dns_hostname, ".", "-"), " ", "-")])
         /\ UNCHANGED <<cache, requests, hostname_counts>>
    ELSE LET base == base_hostname(vendor_of(mac, reply), mac)
         IN  /\ get_vendor(mac, reply)
             /\ IF base \in DOMAIN hostname_counts
                THEN /\ hostname_counts' = hostname_counts
                     /\ issued' = Append(issued,
                            [mac |-> mac, base |-> base,
                             label |-> base \o <<"-">>
                                        \o Digits(hostname_counts[base] + 1)])
                ELSE /\ hostname_counts' = (base :> 1) @@ hostname_counts
                     /\ issued' = Append(issued,
                            [mac |-> mac, base |-> base, label |-> base])

\* ---- MacVendorLookup.generate_hostname ----
generate_hostname(mac, ip, dns_hostname, reply) ==
    IF dns_hostname # <<>> /\ dns_hostname # ip
    THEN /\ issued' = Append(issued,
                [mac |-> mac, base |-> NoBase,
                 label |-> replace(replace(dns_hostname, ".", "-"), " ", "-")])
         /\ UNCHANGED <<cache, requests, hostname_counts>>
    ELSE LET base == base_hostname(vendor_of(mac, reply), mac)
         IN  /\ get_vendor(mac, reply)
             /\ IF base \in DOMAIN hostname_counts
                THEN /\ hostname_counts' =
                            [hostname_counts EXCEPT ![base] = @ + 1]
                     /\ issued' = Append(issued,
                            [mac |-> mac, base |-> base,
                             label |-> base \o <<"-">>
                                        \o Digits(hostname_counts[base] + 1)])
                ELSE /\ hostname_counts' = (base :> 1) @@ hostname_counts
                     /\ issued' = Append(issued,
                            [mac |-> mac, base |-> base, label |-> base])

InitLookup ==
    /\ CoreInit
    /\ LockInit
    /\ device_overrides = <<>>
    /\ CfgInit
    /\ max_workers = DefaultWorkers
    /\ SweepIdle
    /\ PingInit
    /\ LookupInit
    /\ FileIdle
    /\ CallIdle

\* a call self.mac_lookup.generate_hostname(mac, ip, dns_hostname) of scan
LookupCall(mac, dns_hostname, reply) ==
    /\ Len(issued) < MaxCalls
    /\ generate_hostname(mac, LookupIp, dns_hostname, reply)
    /\ UNCHANGED <<device_states, disk, clock, running, discPc, discSeen, discMac, discBefore,
                   pollPc, pollDevices, lockVars, cfgVars, sweepVars, pingVars,
                   genPc, fileVars, callVars>>

NextLookup ==
    \E mac \in LookupMacs, dns_hostname \in DnsNames :
        \E reply \in Replies(mac) : LookupCall(mac, dns_hostname, reply)

SpecLookup == InitLookup /\ [][NextLookup]_vars

\* the calls without a DNS name that were made for base name b, in order
CallsFor(b) == SelectSeq(issued, LAMBDA e : e.base = b)

IssuedBases == { issued[i].base : i \in 1..Len(issued) } \ {NoBase}

\* C22: of the calls made without a DNS name for one base name, the first
\* returned the base name and the k-th (k >= 2) the base name with the suffix
\* -k, so the labels of one base name are pairwise distinct and given by the
\* order of the calls; the count of a base name is the number of those calls
\* and never decreases.
C22_SuffixesInCallOrder ==
    /\ [](\A b \in IssuedBases :
            LET calls == CallsFor(b)
            IN  /\ \A k \in 1..Len(calls) :
                      calls[k].label =
                          IF k = 1 THEN b ELSE b \o <<"-">> \o Digits(k)
                /\ \A j, k \in 1..Len(calls) :
                      j # k => calls[j].label # calls[k].label
                /\ b \in DOMAIN hostname_counts
                /\ hostname_counts[b] = Len(calls))
    /\ [][\A b \in DOMAIN hostname_counts :
            /\ b \in DOMAIN hostname_counts'
            /\ hostname_counts'[b] >= hostname_counts[b]]_vars

\* three calls were made for one base name, for two macs
C22_Witness ==
    \E b \in IssuedBases :
        /\ Len(CallsFor(b)) = 3
        /\ CallsFor(b)[3].label = b \o <<"-", "3">>
        /\ CallsFor(b)[1].mac # CallsFor(b)[2].mac

\* C29 as stated: a call for a mac whose vendor prefix is that of a mac
\* already resolved makes no request.
C29_Original ==
    [][\A mac \in LookupMacs :
          ( /\ \E dns_hostname \in DnsNames, reply \in Replies(mac) :
                  LookupCall(mac, dns_hostname, reply)
            /\ \E known \in DOMAIN cache : oui(known) = oui(mac) )
          => requests' = requests]_vars

(***************************************************************************)
(* generate_hostname called by two threads at once.  The lookup has no     *)
(* lock, so the interpreter can switch threads between the test of the     *)
(* dict, the read of the count, its write and the read for the label.      *)
(* get_vendor is taken as one step: the calls differ in what they do with  *)
(* hostname_counts.                                                        *)
(***************************************************************************)
Callers == {"t1", "t2"}

IdleCaller == [pc |-> "idle", mac |-> <<>>, base |-> NoBase, count |-> 0]

\* the calls that have been entered and not yet returned
Active == { t \in Callers : genPc[t].pc # "idle" }

InitRace ==
    /\ CoreInit
    /\ LockInit
    /\ device_overrides = <<>>
    /\ CfgInit
    /\ max_workers = DefaultWorkers
    /\ SweepIdle
    /\ PingInit
    /\ cache = <<>>
    /\ hostname_counts = <<>>
    /\ requests = 0
    /\ issued = <<>>
    /\ genPc = [t \in Callers |-> IdleCaller]
    /\ FileIdle
    /\ CallIdle

\* what the steps of a call leave as it is
RaceFrame ==
    UNCHANGED <<device_states, disk, clock, running, discPc, discSeen, discMac, discBefore,
                pollPc, pollDevices, lockVars, cfgVars, sweepVars, pingVars,
                fileVars, callVars>>

\* the call is entered without DNS name: vendor, last4 and base_hostname
RaceEnter(t, mac, reply) ==
    /\ genPc[t].pc = "idle"
    /\ Len(issued) + Cardinality(Active) < MaxCalls
    /\ get_vendor(mac, reply)
    /\ genPc' = [genPc EXCEPT ![t] =
                    [pc |-> "test", mac |-> mac,
                     base |-> base_hostname(vendor_of(mac, reply), mac),
                     count |-> 0]]
    /\ UNCHANGED <<hostname_counts, issued>>
    /\ RaceFrame

\* if base_hostname in self.hostname_counts
RaceTest(t) ==
    /\ genPc[t].pc = "test"
    /\ genPc' = [genPc EXCEPT ![t].pc =
                    IF genPc[t].base \in DOMAIN hostname_counts
                    THEN "load" ELSE "first"]
    /\ UNCHANGED <<cache, requests, hostname_counts, issued>>
    /\ RaceFrame

\* self.hostname_counts[base_hostname] = 1; return base_hostname
RaceFirst(t) ==
    /\ genPc[t].pc = "first"
    /\ hostname_counts' =
            (genPc[t].base :> 1)
                @@ [b \in DOMAIN hostname_counts \ {genPc[t].base} |->
                        hostname_counts[b]]
    /\ issued' = Append(issued,
            [mac |-> genPc[t].mac, base |-> genPc[t].base,
             label |-> genPc[t].base])
    /\ genPc' = [genPc EXCEPT ![t] = IdleCaller]
    /\ UNCHANGED <<cache, requests>>
    /\ RaceFrame

\* self.hostname_counts[base_hostname] += 1: the count is read
RaceLoad(t) ==
    /\ genPc[t].pc = "load"
    /\ genPc' = [genPc EXCEPT ![t].pc = "store",
                              ![t].count = hostname_counts[genPc[t].base]]
    /\ UNCHANGED <<cache, requests, hostname_counts, issued>>
    /\ RaceFrame

\* self.hostname_counts[base_hostname] += 1: the sum is written
RaceStore(t) ==
    /\ genPc[t].pc = "store"
    /\ hostname_counts' =
            [hostname_counts EXCEPT ![genPc[t].base] = genPc[t].count + 1]
    /\ genPc' = [genPc EXCEPT ![t].pc = "format"]
    /\ UNCHANGED <<cache, requests, issued>>
    /\ RaceFrame

\* return f"{base_hostname}-{self.hostname_counts[base_hostname]}"
RaceFormat(t) ==
    /\ genPc[t].pc = "format"
    /\ issued' = Append(issued,
            [mac |-> genPc[t].mac, base |-> genPc[t].base,
             label |-> genPc[t].base \o <<"-">>
                        \o Digits(hostname_counts[genPc[t].base])])
    /\ genPc' = [genPc EXCEPT ![t] = IdleCaller]
    /\ UNCHANGED <<cache, requests, hostname_counts>>
    /\ RaceFrame

NextRace ==
    \E t \in Callers :
        \/ \E mac \in LookupMacs : \E reply \in Replies(mac) : RaceEnter(t, mac, reply)
        \/ RaceTest(t)
        \/ RaceFirst(t)
        \/ RaceLoad(t)
        \/ RaceStore(t)
        \/ RaceFormat(t)

SpecRace == InitRace /\ [][NextRace]_vars

\* C28 as stated: also when calls run at the same time, no two calls for one
\* base name return the same label, and once every call has returned the
\* count of a base name is the number of calls made for it.
C28_Original ==
    /\ \A i, j \in 1..Len(issued) :
          (i # j /\ issued[i].base = issued[j].base)
              => issued[i].label # issued[j].label
    /\ Active = {} =>
          \A b \in IssuedBases :
              b \in DOMAIN hostname_counts /\ hostname_counts[b] = Len(CallsFor(b))

\* C36: the file name of a file name is that file name, so the label a device
\* is loaded with (the name of its file) leads the next write to the file it
\* was loaded from.
C36_Idempotent ==
    /\ [](fnName # <<>> => _get_filename(fnName[1]) = fnName[1])
    /\ [][LoadHostname => _get_filename(fnLabel') = fnName[1]]_vars

\* a device was loaded from the file 'unknown-device' and its file name has
\* been computed again
C36_Witness ==
    /\ fnLabel = UnknownDevice
    /\ fnName = << UnknownDevice >>

(***************************************************************************)
(* The DeviceTracker called directly: any call of add_or_update_device and *)
(* of update_device_status, with any arguments, in any order.              *)
(***************************************************************************)
\* tracker.add_or_update_device(mac, ip, hostname)
CallRegister(mac, ip, hostname) ==
    /\ add_or_update_device(mac, ip, hostname)
    /\ trkCall' = <<"add_or_update_device", mac, ip, hostname>>
    /\ UNCHANGED <<running, discPc, discSeen, discMac, discBefore, pollPc, pollDevices,
                   lockVars, cfgVars, sweepVars, pingVars, lookupVars, fileVars>>

\* tracker.update_device_status(mac, new_status)
CallSetStatus(mac, new_status) ==
    /\ update_device_status(mac, new_status)
    /\ trkCall' = <<"update_device_status", mac, new_status>>
    /\ UNCHANGED <<running, discPc, discSeen, discMac, discBefore, pollPc, pollDevices,
                   lockVars, cfgVars, sweepVars, pingVars, lookupVars, fileVars>>

NextCalls ==
    \/ \E pair \in ScanPairs : CallRegister(pair[1], pair[2], pair[3])
    \/ \E mac \in MACs, new_status \in StatusValues : CallSetStatus(mac, new_status)

SpecCalls == Init /\ [][NextCalls]_vars

\* C35: update_device_status for a mac the Tracker does not know changes
\* nothing: no device is made, no line is written, no device is changed.
C35_UnknownMacIsNoOp ==
    [][\A mac \in MACs, new_status \in StatusValues :
          (CallSetStatus(mac, new_status) /\ mac \notin DOMAIN device_states)
              => /\ device_states' = device_states
                 /\ disk' = disk
                 /\ clock' = clock]_vars

\* update_device_status was called for m2 while the Tracker knew m1 only
C35_Witness ==
    /\ trkCall = <<"update_device_status", "m2", "offline">>
    /\ DOMAIN device_states = {"m1"}

(***************************************************************************)
(* One scanned pair of a discovery cycle (Spec)                            *)
(***************************************************************************)
\* the step appends exactly one entry, an online entry of the device mac
AppendsOneOnline(mac) ==
    /\ Len(disk') = Len(disk) + 1
    /\ IsPrefix(disk, disk')
    /\ disk'[Len(disk')].mac = mac
    /\ disk'[Len(disk')].status = "online"

\* the first call made for a pair appends one entry (online, duration 0) if
\* the device is new and none if it is known
PairRegisterEntries ==
    [][\A pair \in ScanPairs :
          DiscoveryRegister(pair[1], pair[2], pair[3])
          => IF pair[1] \in DOMAIN device_states
             THEN disk' = disk
             ELSE AppendsOneOnline(pair[1]) /\ disk'[Len(disk')].interval = 0]_vars

\* C34 as stated: the two calls made for a pair append one entry together if
\* the device was new or offline when the loop reached the pair, and none if
\* it was online: the second call appends one entry for a device that was
\* offline and none for a device that was new or online.
C34_Original ==
    /\ PairRegisterEntries
    /\ [][DiscoveryUpdate
            => IF discBefore = "offline"
               THEN AppendsOneOnline(discMac)
               ELSE disk' = disk]_vars

\* C34: each of the two calls made for a pair appends at most one entry.  The
\* first appends one (online, duration 0) exactly if the device is new.  The
\* second appends one online entry exactly if the Tracker holds the device
\* offline when the call is made, whatever it held when the loop reached
\* the pair; it changes nothing else on disk.
C34_PairAppendsPerCall ==
    /\ PairRegisterEntries
    /\ [][DiscoveryUpdate
            => IF device_states[discMac].status = "offline"
               THEN AppendsOneOnline(discMac)
               ELSE disk' = disk]_vars
    /\ [](discPc = "update" => discMac \in DOMAIN device_states)

\* the loop has registered a new device and, before its second call, the
\* polling loop has set the device offline
C34_Witness ==
    /\ discPc = "update"
    /\ discBefore = "new"
    /\ device_states[discMac].status = "offline"
    /\ Len(History(discMac)) = 2

(***************************************************************************)
(* The sweep that is under way when stop is signalled (SpecIO)             *)
(***************************************************************************)
\* C31 as stated: after stop is signalled every probe of the sweep under way
\* is still handled, and the status update of its result is applied whole or
\* not at all: the step that handles the result of mac either leaves the
\* device map and the history as they are, or gives the device the new
\* status and appends one entry of that status for it.
C31_Original ==
    [][\A mac \in MACs :
          ( /\ ~running
            /\ pollPc = "sweep"
            /\ mac \in DOMAIN pollDevices
            /\ mac \notin DOMAIN pollDevices' )
          => \/ /\ device_states' = device_states
                /\ disk' = disk
             \/ /\ mac \in DOMAIN device_states
                /\ device_states'[mac].status # device_states[mac].status
                /\ Len(disk') = Len(disk) + 1
                /\ disk'[Len(disk')].mac = mac
                /\ disk'[Len(disk')].status = device_states'[mac].status]_vars

(***************************************************************************)
(* The lock of the DeviceTracker when the body of a call raises            *)
(* (SpecMutex).  The steps are those of SpecLock, and a call that has a    *)
(* line to write may raise instead of writing it: `with self.lock`         *)
(* releases the lock as the exception leaves the block.  A thread inside   *)
(* a call goes on to its end; a thread that waits for the lock gets it:    *)
(* the other thread sleeps between its cycles with the lock free.  The     *)
(* process starts on the directory of an earlier run, as in SpecIO.        *)
(***************************************************************************)
\* variant: an exception leaves the with block with the lock still held
raise_and_release_held(t) ==
    /\ pendingWrite # NoWrite
    /\ lock = t
    /\ lock' = t
    /\ pendingWrite' = NoWrite
    /\ disk' = disk

\* ---- open or f.write raises and the exception leaves the with block ----
raise_and_release(t) ==
    /\ pendingWrite # NoWrite
    /\ release(t)
    /\ pendingWrite' = NoWrite
    /\ disk' = disk

\* ---- discovery_thread: add_or_update_device raises ----
LockRegisterRaises ==
    /\ discPc = "register_cs"
    /\ raise_and_release("discovery")
    /\ discPc' = "fallback"
    /\ discSeen' = {}
    /\ discMac' = NoMac
    /\ discBefore' = NoMac
    /\ UNCHANGED <<device_states, clock, running, pollPc, pollDevices>>
    /\ UNCHANGED <<cfgVars, sweepVars, pingVars, moreVars>>

\* ---- discovery_thread: update_device_status raises ----
LockUpdateRaises ==
    /\ discPc = "update_cs"
    /\ raise_and_release("discovery")
    /\ discPc' = "fallback"
    /\ discSeen' = {}
    /\ discMac' = NoMac
    /\ discBefore' = NoMac
    /\ UNCHANGED <<device_states, clock, running, pollPc, pollDevices>>
    /\ UNCHANGED <<cfgVars, sweepVars, pingVars, moreVars>>

\* ---- polling_thread: update_device_status raises inside as_completed ----
LockResultRaises ==
    /\ pollPc = "result_cs"
    /\ raise_and_release("polling")
    /\ pollPc' = IF DOMAIN pollDevices = {} THEN "loop" ELSE "sweep"
    /\ UNCHANGED <<device_states, clock, running, discPc, discSeen, discMac, discBefore,
                   pollDevices>>
    /\ UNCHANGED <<cfgVars, sweepVars, pingVars, moreVars>>

\* the end of a call of the discovery thread, by return or by exception
DiscoveryLeaves ==
    \/ LockRegisterLeave
    \/ LockUpdateLeave
    \/ LockRegisterRaises
    \/ LockUpdateRaises

\* the end of a call of the polling thread, by return or by exception
PollingLeaves ==
    \/ LockSnapshotLeave
    \/ LockResultLeave
    \/ LockResultRaises

NextMutex ==
    \/ NextLock
    \/ LockRegisterRaises
    \/ LockUpdateRaises
    \/ LockResultRaises
    \/ DiscoveryFallbackOver

SpecMutex ==
    /\ InitIO
    /\ [][NextMutex]_vars
    /\ WF_vars(DiscoveryLeaves)
    /\ WF_vars(PollingLeaves)
    /\ SF_vars(LockUpdateEnter)
    /\ SF_vars(LockSnapshotEnter)

\* where thread t stands in its loop
ThreadPc(t) == IF t = "discovery" THEN discPc ELSE pollPc

\* C32: no call of the Tracker deadlocks.  The lock is held exactly by a
\* thread inside a call; the step a thread takes inside a call is the end of
\* that call, by return or by exception, and frees the lock: no call takes
\* the lock again or starts another call while it holds it.  A held lock is
\* eventually free; the call of update_device_status the discovery loop is
\* about to make and the call of get_all_devices the polling loop is about
\* to make eventually enter the critical section (as long as the clock of
\* the model has a reading left, and the loop is not stopped first).
C32_NoCallDeadlocks ==
    /\ [](\A t \in Threads : lock = t <=> InCall(t))
    /\ [][\A t \in Threads :
             (InCall(t) /\ ThreadPc(t)' # ThreadPc(t))
             => (lock' = "free" /\ ~InCall(t)')]_vars
    /\ \A t \in Threads : (lock = t) ~> (lock = "free")
    /\ (discPc = "update" /\ clock < MaxTime)
          ~> (discPc = "update_cs" \/ clock = MaxTime)
    /\ (pollPc = "loop" /\ running) ~> (pollPc = "snapshot_cs" \/ ~running)

\* the write of the discovery thread has raised: the loop is in its handler,
\* the lock is free and the polling thread is inside a call
C32_Witness ==
    /\ discPc = "fallback"
    /\ lock = "polling"
    /\ \E m \in DOMAIN device_states : History(m) = <<>>

====
